---- MODULE Spec2Model ----
(***************************************************************************)
(* The packing engine of the stash optimizer (services/optimizer.ts):      *)
(* instance expansion and ordering, the greedy packer, the genetic packer  *)
(* and the facade optimizeStashLayout.                                     *)
(*                                                                         *)
(* Representation.  An id `${type}-${n}` is the pair <<type, n>>; null     *)
(* (an empty grid cell) is the empty tuple.  A grid is a function          *)
(* [0..stashHeight-1 -> [0..GRID_WIDTH-1 -> id]], read grid[y][x] as in    *)
(* the source.  An undefined isLocked is FALSE (the source only tests its  *)
(* truthiness).  A caseCounts object is the sequence of its own keys in    *)
(* enumeration order, each with its count.                                 *)
(***************************************************************************)
EXTENDS Integers, Sequences, FiniteSets, TLC

(***************************************************************************)
(* Program constants                                                       *)
(***************************************************************************)
GRID_WIDTH == 10

Null == <<>>

\* constants.ts CASE_TYPES, in source order
CASE_TYPES ==
  << "ammo", "cards", "docs", "food", "grenades", "items", "junk", "Key_case",
     "keytool", "mags", "medicine", "money", "pistol", "plates", "sicc",
     "stims", "tags", "THICCItems", "thiicweapons", "toolbox", "twitch",
     "wallet", "weapons", "custom_1x1", "custom_1x2", "custom_2x1",
     "custom_2x2", "custom_2x3", "custom_3x1", "custom_3x2", "custom_3x3",
     "custom_3x4", "custom_4x1", "custom_4x3", "custom_4x4" >>

CaseTypeSet == { CASE_TYPES[i] : i \in DOMAIN CASE_TYPES }

\* constants.ts CASES: <<kind, width, height>>
CaseTable ==
  { <<"items", 4, 4>>, <<"THICCItems", 5, 3>>, <<"weapons", 5, 2>>,
    <<"thiicweapons", 5, 2>>, <<"food", 3, 3>>, <<"medicine", 3, 3>>,
    <<"grenades", 3, 3>>, <<"mags", 3, 2>>, <<"money", 3, 2>>,
    <<"ammo", 2, 2>>, <<"pistol", 2, 2>>, <<"toolbox", 2, 2>>,
    <<"junk", 4, 4>>, <<"docs", 1, 2>>, <<"sicc", 2, 1>>,
    <<"plates", 4, 2>>, <<"Key_case", 3, 2>>, <<"cards", 1, 1>>,
    <<"keytool", 1, 1>>, <<"stims", 1, 1>>, <<"tags", 1, 1>>,
    <<"wallet", 1, 1>>, <<"twitch", 3, 3>>, <<"custom_1x1", 1, 1>>,
    <<"custom_2x1", 2, 1>>, <<"custom_1x2", 1, 2>>, <<"custom_2x2", 2, 2>>,
    <<"custom_2x3", 2, 3>>, <<"custom_3x1", 3, 1>>, <<"custom_3x2", 3, 2>>,
    <<"custom_3x3", 3, 3>>, <<"custom_3x4", 3, 4>>, <<"custom_4x1", 4, 1>>,
    <<"custom_4x3", 4, 3>>, <<"custom_4x4", 4, 4>> }

CASES ==
  [ t \in CaseTypeSet |->
      LET e == CHOOSE e \in CaseTable : e[1] = t
      IN  [width |-> e[2], height |-> e[3]] ]

\* String.prototype.localeCompare on the kind identifiers: the kinds in
\* collation order (letters compared without case first, '_' before digits
\* before letters).
LocaleOrder ==
  << "ammo", "cards", "custom_1x1", "custom_1x2", "custom_2x1", "custom_2x2",
     "custom_2x3", "custom_3x1", "custom_3x2", "custom_3x3", "custom_3x4",
     "custom_4x1", "custom_4x3", "custom_4x4", "docs", "food", "grenades",
     "items", "junk", "Key_case", "keytool", "mags", "medicine", "money",
     "pistol", "plates", "sicc", "stims", "tags", "THICCItems",
     "thiicweapons", "toolbox", "twitch", "wallet", "weapons" >>

LocaleRank(t) == CHOOSE i \in DOMAIN LocaleOrder : LocaleOrder[i] = t

\* a.localeCompare(b): negative, zero or positive
localeCompare(a, b) == LocaleRank(a) - LocaleRank(b)

(***************************************************************************)
(* Small helpers                                                           *)
(***************************************************************************)
Min(a, b) == IF a < b THEN a ELSE b
Max(a, b) == IF a > b THEN a ELSE b

Range(s) == { s[i] : i \in DOMAIN s }

\* Array.prototype.splice(i, 1) on a 1-based sequence
RemoveAt(s, i) == [ k \in 1..(Len(s) - 1) |-> IF k < i THEN s[k] ELSE s[k + 1] ]

\* Array.from({length: stashHeight}, () => Array(GRID_WIDTH).fill(null))
EmptyGrid(H) == [ y \in 0..(H - 1) |-> [ x \in 0..(GRID_WIDTH - 1) |-> Null ] ]

\* The marking loops: every cell of the rectangle that lies in the grid gets id.
MarkCells(grid, x, y, w, h, id) ==
  [ yy \in DOMAIN grid |->
      [ xx \in DOMAIN grid[yy] |->
          IF yy >= y /\ yy < y + h /\ xx >= x /\ xx < x + w
            THEN id ELSE grid[yy][xx] ] ]

RECURSIVE MarkAll(_, _)
\* for (const c of items) mark c's rectangle, in list order, clipped to the grid
MarkAll(grid, items) ==
  IF items = <<>> THEN grid
  ELSE MarkAll(MarkCells(grid, Head(items).x, Head(items).y,
                         Head(items).width, Head(items).height, Head(items).id),
               Tail(items))

\* {...c, isLocked: true}
AsLocked(c) == [c EXCEPT !.isLocked = TRUE]

MapLocked(items) == [ i \in DOMAIN items |-> AsLocked(items[i]) ]

(***************************************************************************)
(* optimizeStashLayout, part 1: instance expansion                         *)
(***************************************************************************)
isValidCaseType(caseType) == caseType \in CaseTypeSet

RECURSIVE ExpandOneMore(_, _, _, _)
\* the loop with i <= count for i < count: one instance too many
ExpandOneMore(caseType, count, acc, idCounter) ==
  IF count < 0 THEN [cases |-> acc, idCounter |-> idCounter]
  ELSE ExpandOneMore(caseType, count - 1,
                     Append(acc, [id |-> <<caseType, idCounter>>, type |-> caseType,
                                  width |-> CASES[caseType].width,
                                  height |-> CASES[caseType].height]),
                     idCounter + 1)

RECURSIVE ExpandOne(_, _, _, _)
\* for (let i = 0; i < count; i++) allCases.push({id: `${caseType}-${idCounter++}`, ...})
ExpandOne(caseType, count, acc, idCounter) ==
  IF count <= 0 THEN [cases |-> acc, idCounter |-> idCounter]
  ELSE ExpandOne(caseType, count - 1,
                 Append(acc, [id |-> <<caseType, idCounter>>, type |-> caseType,
                              width |-> CASES[caseType].width,
                              height |-> CASES[caseType].height]),
                 idCounter + 1)

RECURSIVE ExpandFrom(_, _, _)
\* for (const caseType in caseCounts) { if (!isValidCaseType) continue; if (count > 0) ... }
ExpandFrom(counts, acc, idCounter) ==
  IF counts = <<>> THEN acc
  ELSE LET e == Head(counts) IN
       IF ~isValidCaseType(e.key) THEN ExpandFrom(Tail(counts), acc, idCounter)
       ELSE IF e.count > 0
         THEN LET r == ExpandOne(e.key, e.count, acc, idCounter)
              IN  ExpandFrom(Tail(counts), r.cases, r.idCounter)
         ELSE ExpandFrom(Tail(counts), acc, idCounter)

\* an idCounter that lives outside the function and is never reset
KeepIdCounter(previous) == previous

\* let idCounter = 0 at the start of every call; the parameter is the value a
\* counter kept from the previous call would have
StartIdCounter(previous) == 0

ExpandInstances(counts, previous) == ExpandFrom(counts, <<>>, StartIdCounter(previous))

RECURSIVE CountOf(_, _)
\* caseTypeCounts.get(type) || 0 : the count set for a valid key with count > 0
CountOf(counts, type) ==
  IF counts = <<>> THEN 0
  ELSE IF Head(counts).key = type /\ isValidCaseType(type) /\ Head(counts).count > 0
         THEN Head(counts).count
         ELSE CountOf(Tail(counts), type)

(***************************************************************************)
(* optimizeStashLayout, part 2: the sort                                   *)
(***************************************************************************)
\* a comparator without the two count rules: width, height, kind only
compareCasesUngrouped(a, b, counts) ==
  IF a.width # b.width THEN b.width - a.width
  ELSE IF a.height # b.height THEN b.height - a.height
  ELSE localeCompare(a.type, b.type)

\* the comparator of allCases.sort: negative when a goes first
compareCases(a, b, counts) ==
  LET aCount == CountOf(counts, a.type)
      bCount == CountOf(counts, b.type)
  IN  IF aCount > 1 /\ bCount = 1 THEN -1
      ELSE IF aCount = 1 /\ bCount > 1 THEN 1
      ELSE IF a.width # b.width THEN b.width - a.width
      ELSE IF a.height # b.height THEN b.height - a.height
      ELSE localeCompare(a.type, b.type)

RECURSIVE InsertSorted(_, _, _)
\* stable insertion: e goes after every element it does not precede
InsertSorted(sorted, e, counts) ==
  IF sorted = <<>> THEN <<e>>
  ELSE IF compareCases(e, Head(sorted), counts) < 0
         THEN <<e>> \o sorted
         ELSE <<Head(sorted)>> \o InsertSorted(Tail(sorted), e, counts)

RECURSIVE SortFrom(_, _, _)
SortFrom(rest, sorted, counts) ==
  IF rest = <<>> THEN sorted
  ELSE SortFrom(Tail(rest), InsertSorted(sorted, Head(rest), counts), counts)

\* Array.prototype.sort is stable
sortCases(cases, counts) == SortFrom(cases, <<>>, counts)

(***************************************************************************)
(* greedyOptimization                                                      *)
(***************************************************************************)
\* contiguous empty cells to the right of (x, y), (x, y) included
RunRight(grid, x, y) ==
  Cardinality({ k \in x..(GRID_WIDTH - 1) : \A j \in x..k : grid[y][j] = Null })

\* contiguous empty cells below (x, y), (x, y) included
RunDown(grid, x, y, H) ==
  Cardinality({ k \in y..(H - 1) : \A j \in y..k : grid[j][x] = Null })

SetMin(S) == CHOOSE m \in S : \A n \in S : m <= n

\* the two runs from (x, y) taken as a rectangle, without looking at the
\* rows below y
getAvailableSpaceOfRuns(grid, x, y, H) ==
  [ width |-> RunRight(grid, x, y), height |-> RunDown(grid, x, y, H) ]

getAvailableSpace(grid, x, y, H) ==
  LET maxWidth  == RunRight(grid, x, y)
      maxHeight == RunDown(grid, x, y, H)
      \* rowWidth of row yy: the run from x, cut at x + maxWidth
      rowWidth(yy) == Min(RunRight(grid, x, yy), maxWidth)
      rows == { yy \in y..(y + maxHeight - 1) : yy < H }
  IN  [ width  |-> SetMin({maxWidth} \cup { rowWidth(yy) : yy \in rows }),
        height |-> maxHeight ]

\* The score, multiplied by availableWidth * availableHeight so that the two
\* quotients are integers; every comparison of scores is between candidates
\* of one cell, which share that positive factor.
scorePlacement(caseWidth, caseHeight, availableWidth, availableHeight) ==
  LET caseArea      == caseWidth * caseHeight
      availableArea == availableWidth * availableHeight
      waste         == availableArea - caseArea
      base == caseArea * 1000
              + (IF caseWidth = availableWidth THEN 5000 ELSE 0)
              + (IF caseHeight = availableHeight THEN 3000 ELSE 0)
              - waste * 10
  IN  base * availableArea
      + (caseWidth * availableHeight + caseHeight * availableWidth) * 1000

\* the orientations without the test width !== height
orientationsOfBoth(c) ==
  << [width |-> c.width, height |-> c.height, rotated |-> FALSE],
     [width |-> c.height, height |-> c.width, rotated |-> TRUE] >>

orientationsOf(c) ==
  IF c.width # c.height
    THEN << [width |-> c.width, height |-> c.height, rotated |-> FALSE],
            [width |-> c.height, height |-> c.width, rotated |-> TRUE] >>
    ELSE << [width |-> c.width, height |-> c.height, rotated |-> FALSE] >>

hasCollision(grid, x, y, w, h) ==
  \E yy \in y..(y + h - 1), xx \in x..(x + w - 1) : grid[yy][xx] # Null

\* a test that only looks for occupied cells, among the cells of the
\* rectangle that lie in the grid: no comparison against the available space
\* or the grid's size
isCandidateClipped(grid, x, y, H, orient, availableSpace) ==
  \A yy \in y..(y + orient.height - 1), xx \in x..(x + orient.width - 1) :
    (yy < H /\ xx < GRID_WIDTH) => grid[yy][xx] = Null

\* the test of one orientation at (x, y)
isCandidate(grid, x, y, H, orient, availableSpace) ==
  /\ orient.width <= availableSpace.width
  /\ orient.height <= availableSpace.height
  /\ x + orient.width <= GRID_WIDTH
  /\ y + orient.height <= H
  /\ ~hasCollision(grid, x, y, orient.width, orient.height)

RECURSIVE CandidatesFrom(_, _, _, _, _, _)
\* the candidates in the order the two loops produce them
CandidatesFrom(i, grid, remainingCases, x, y, H) ==
  IF i > Len(remainingCases) THEN <<>>
  ELSE LET av == getAvailableSpace(grid, x, y, H)
           os == orientationsOf(remainingCases[i])
           all == [ k \in DOMAIN os |->
                      [ caseIndex |-> i, orientation |-> os[k],
                        score |-> scorePlacement(os[k].width, os[k].height,
                                                 av.width, av.height) ] ]
       IN  SelectSeq(all, LAMBDA c : isCandidate(grid, x, y, H, c.orientation, av))
           \o CandidatesFrom(i + 1, grid, remainingCases, x, y, H)

\* a comparison with >=: among equal scores the last candidate is kept
keepBestLast(best, c) == IF best = <<>> \/ c.score >= best[1].score THEN <<c>> ELSE best

\* if (!bestPlacement || score > bestPlacement.score) bestPlacement = ...
keepBest(best, c) == IF best = <<>> \/ c.score > best[1].score THEN <<c>> ELSE best

RECURSIVE FoldBest(_, _)
FoldBest(cands, best) ==
  IF cands = <<>> THEN best ELSE FoldBest(Tail(cands), keepBest(best, Head(cands)))

\* <<>> (no placement) or a one-element sequence holding the best placement
bestPlacementAt(grid, remainingCases, x, y, H) ==
  FoldBest(CandidatesFrom(1, grid, remainingCases, x, y, H), <<>>)

\* the body of the scan loop at cell (x, y); st = [grid, placedCases, remainingCases]
scanCell(st, x, y, H) ==
  IF st.grid[y][x] # Null THEN st
  ELSE LET best == bestPlacementAt(st.grid, st.remainingCases, x, y, H) IN
       IF best = <<>> THEN st
       ELSE LET caseToPlace == st.remainingCases[best[1].caseIndex]
                orient == best[1].orientation
                placedItem == [ id |-> caseToPlace.id, type |-> caseToPlace.type,
                                x |-> x, y |-> y,
                                width |-> orient.width, height |-> orient.height,
                                rotated |-> orient.rotated, isLocked |-> FALSE ]
            IN  [ grid |-> MarkCells(st.grid, x, y, orient.width, orient.height,
                                     caseToPlace.id),
                  placedCases |-> Append(st.placedCases, placedItem),
                  remainingCases |-> RemoveAt(st.remainingCases, best[1].caseIndex) ]

\* a start that marks the locked cases and forgets to push them
greedyStartWithoutLocked(allCases, H, lockedPositions) ==
  [ grid |-> MarkAll(EmptyGrid(H), lockedPositions),
    placedCases |-> <<>>,
    remainingCases |-> allCases ]

\* a start that pushes the locked cases and leaves their cells empty
greedyStartUnmarked(allCases, H, lockedPositions) ==
  [ grid |-> EmptyGrid(H),
    placedCases |-> MapLocked(lockedPositions),
    remainingCases |-> allCases ]

\* the state after the locked cases are pushed and marked
greedyStart(allCases, H, lockedPositions) ==
  [ grid |-> MarkAll(EmptyGrid(H), lockedPositions),
    placedCases |-> MapLocked(lockedPositions),
    remainingCases |-> allCases ]

RECURSIVE scanFrom(_, _, _)
\* the scan from cell number n (row-major) to the end
scanFrom(st, n, H) ==
  IF n >= GRID_WIDTH * H THEN st
  ELSE scanFrom(scanCell(st, n % GRID_WIDTH, n \div GRID_WIDTH, H), n + 1, H)

greedyOptimization(allCases, H, lockedPositions) ==
  LET st == scanFrom(greedyStart(allCases, H, lockedPositions), 0, H)
  IN  [ grid |-> st.grid, placedCases |-> st.placedCases,
        unplacedCases |-> st.remainingCases ]

(***************************************************************************)
(* Inputs of a call                                                        *)
(***************************************************************************)
MaxCount  == 2   \* largest count of one key
MaxKeys   == 2   \* keys of a caseCounts object
MaxHeight == 2   \* largest stashHeight

\* keys a caller passes; "bogus" is not in the catalog
InputKeys == { "custom_3x1", "custom_1x1", "custom_2x1", "bogus" }

CountEntries == [ key : InputKeys, count : (-1)..MaxCount ]

DistinctKeys(counts) ==
  \A i, j \in DOMAIN counts : i # j => counts[i].key # counts[j].key

CaseCountsOfLen(n) == { c \in [1..n -> CountEntries] : DistinctKeys(c) }

AllCaseCounts == UNION { CaseCountsOfLen(n) : n \in 0..MaxKeys }

Placed(id, type, x, y, w, h, rotated, isLocked) ==
  [ id |-> id, type |-> type, x |-> x, y |-> y, width |-> w, height |-> h,
    rotated |-> rotated, isLocked |-> isLocked ]

\* Locked cases a caller passes.  Ids are the caller's: some come from the
\* drag-and-drop counter (large numbers), some from an earlier result of the
\* optimizer (small numbers, which a later call generates again).
P1 == Placed(<<"sicc", 1700>>, "sicc", 0, 0, 2, 1, FALSE, TRUE)
P2 == Placed(<<"weapons", 1701>>, "weapons", 5, 0, 5, 2, FALSE, TRUE)
P3 == Placed(<<"docs", 1702>>, "docs", 3, 1, 2, 1, TRUE, TRUE)
P4 == Placed(<<"plates", 1703>>, "plates", 0, 0, 4, 2, FALSE, TRUE)
P5 == Placed(<<"custom_1x1", 0>>, "custom_1x1", 4, 0, 1, 1, FALSE, FALSE)
P6 == Placed(<<"keytool", 1704>>, "keytool", 4, 1, 1, 1, FALSE, TRUE)
R1 == Placed(<<"custom_4x1", 1705>>, "custom_4x1", 0, 0, 4, 1, FALSE, TRUE)
R2 == Placed(<<"custom_4x1", 1706>>, "custom_4x1", 4, 0, 4, 1, FALSE, TRUE)
R3 == Placed(<<"custom_1x1", 0>>, "custom_1x1", 8, 0, 1, 1, FALSE, FALSE)

LockedLayouts ==
  { <<>>, <<P1>>, <<P3, P1, P2>>, <<P2, P4>>, <<P4, P5, P2>>,
    <<P4, P5, P2, P6>>, <<R1, R2, R3>> }

InGrid(c, H) ==
  c.x >= 0 /\ c.y >= 0 /\ c.x + c.width <= GRID_WIDTH /\ c.y + c.height <= H

Overlap(a, b) ==
  /\ a.x < b.x + b.width /\ b.x < a.x + a.width
  /\ a.y < b.y + b.height /\ b.y < a.y + a.height

\* the caller's contract: locked cases inside the grid and pairwise disjoint
WellFormedLocked(locked, H) ==
  /\ \A i \in DOMAIN locked : InGrid(locked[i], H)
  /\ \A i, j \in DOMAIN locked : i # j => ~Overlap(locked[i], locked[j])

Methods == { "greedy", "genetic", "simulated-annealing", "first-fit", "best-fit" }

RECURSIVE TotalCount(_)
TotalCount(counts) ==
  IF counts = <<>> THEN 0
  ELSE (IF isValidCaseType(Head(counts).key) /\ Head(counts).count > 0
          THEN Head(counts).count ELSE 0) + TotalCount(Tail(counts))

FreeCells(locked, H) ==
  LET g == MarkAll(EmptyGrid(H), locked)
  IN  Cardinality({ c \in (0..(H - 1)) \X (0..(GRID_WIDTH - 1)) : g[c[1]][c[2]] = Null })

(***************************************************************************)
(* State                                                                   *)
(***************************************************************************)
VARIABLES
  caseCounts,       \* the arguments of the call in progress
  stashHeight,
  lockedPositions,
  method,
  pc,               \* where the call is
  idCounter,        \* optimizeStashLayout's idCounter after the expansion
  allCases,         \* the expanded, sorted instances
  ran,              \* the packer the facade dispatched to
  grid,             \* greedyOptimization: grid, placedCases, remainingCases
  placedCases,
  remainingCases,
  cell,             \* greedyOptimization: number of the next cell of the scan
  population,       \* geneticOptimization: population, newPopulation, generation
  newPopulation,
  generation,
  result,           \* the returned StashLayout, <<>> before the return
  callNo,           \* 1 for the first call, 2 for the one that follows it
  second,           \* how the second call was made: "repeat" or "roundtrip"
  firstResult,      \* the StashLayout the first call returned
  appCaseCounts,         \* App: the state caseCounts (the remaining counts)
  manuallyPlacedCases,   \* App: the state manuallyPlacedCases
  optimizationMethod,    \* App: the state optimizationMethod
  pendingClick,          \* App: the click whose timer has not fired, or <<>>
  idCounterRef,          \* StashGridDisplay: the counter of dropped cases
  submitted,             \* the counts handed over by the last click that completed
  calledBy,              \* the handler that called optimizeStashLayout in the last step, or "none"
  countFile,             \* server: the content of tarkov-count.json
  countAtStart,          \* server: the count the file held when the server started
  requests               \* server: the POST requests, each with its handler's position

inputVars  == << caseCounts, stashHeight, lockedPositions, method >>
greedyVars == << grid, placedCases, remainingCases, cell >>
geneticVars == << population, newPopulation, generation >>
callVars   == << callNo, second, firstResult >>
appVars    == << appCaseCounts, manuallyPlacedCases, optimizationMethod,
                 pendingClick, idCounterRef, submitted, calledBy >>
serverVars == << countFile, countAtStart, requests >>
vars == << caseCounts, stashHeight, lockedPositions, method, pc, idCounter,
           allCases, ran, grid, placedCases, remainingCases, cell, population,
           newPopulation, generation, result, callNo, second, firstResult,
           appCaseCounts, manuallyPlacedCases, optimizationMethod,
           pendingClick, idCounterRef, submitted, calledBy,
           countFile, countAtStart, requests >>

(***************************************************************************)
(* The App component's state (App.tsx) around the engine                   *)
(***************************************************************************)
\* counts[key] || 0
ReadCount(counts, key) ==
  IF \E i \in DOMAIN counts : counts[i].key = key
    THEN (CHOOSE e \in Range(counts) : e.key = key).count
    ELSE 0

\* { ...counts, [key]: n }: an own key keeps its place, a new key goes last
WithCount(counts, key, n) ==
  IF \E i \in DOMAIN counts : counts[i].key = key
    THEN [ i \in DOMAIN counts |->
             IF counts[i].key = key THEN [key |-> key, count |-> n] ELSE counts[i] ]
    ELSE Append(counts, [key |-> key, count |-> n])

RECURSIVE SpreadFrom(_, _, _)
SpreadFrom(acc, b, i) ==
  IF i > Len(b) THEN acc
  ELSE SpreadFrom(WithCount(acc, b[i].key, b[i].count), b, i + 1)

\* { ...a, ...b }
Spread(a, b) == SpreadFrom(a, b, 1)

\* Object.fromEntries(CASE_TYPES.map(type => [type, 0]))
initialCounts == [ i \in DOMAIN CASE_TYPES |-> [key |-> CASE_TYPES[i], count |-> 0] ]

ensureAllCaseTypes(counts) == Spread(initialCounts, counts)

\* useRef<number>(Date.now()) when the grid display mounts
DateNow == 1707

\* the state of App on a first visit (nothing in localStorage)
(***************************************************************************)
(* The counter service (server.cjs): the file and the requests in flight   *)
(***************************************************************************)
MaxRequests    == 3   \* POST requests a run handles
MaxStoredCount == 2   \* largest count the file holds at the start

Requests == 1..MaxRequests

\* JSON.stringify({ count }): the file's content as a one-element sequence;
\* <<>> is the empty file an opened, not yet written file is
stringifyCount(count) == << count >>

\* JSON.parse(data).count || 0, and 0 when JSON.parse throws (empty data)
parseCount(data) == IF data = <<>> THEN 0 ELSE data[1]

NoRequest == [ pc |-> "none", currentCount |-> 0, status |-> 0, count |-> 0 ]

\* the file holds count 0 and no request has arrived
ServerStarted ==
  /\ countFile = stringifyCount(0)
  /\ countAtStart = 0
  /\ requests = [ r \in Requests |-> NoRequest ]

AppMounted ==
  /\ appCaseCounts = initialCounts
  /\ manuallyPlacedCases = <<>>
  /\ optimizationMethod = "greedy"
  /\ pendingClick = <<>>
  /\ idCounterRef = DateNow
  /\ submitted = <<>>
  /\ calledBy = "none"

\* the locals of a call before it starts
FreshCall ==
  /\ pc = "expand"
  /\ allCases = <<>>
  /\ ran = "none"
  /\ grid = <<>>
  /\ placedCases = <<>>
  /\ remainingCases = <<>>
  /\ cell = 0
  /\ population = <<>>
  /\ newPopulation = <<>>
  /\ generation = 0
  /\ result = <<>>

\* The genetic runs that are enumerated: few instances and few free cells, so
\* that every population of every generation can be visited.
MaxGeneticKeys  == 1
MaxGeneticCases == 1
MaxGeneticFree  == 2

GeneticInput(counts, H, locked) ==
  /\ Len(counts) <= MaxGeneticKeys
  /\ TotalCount(counts) <= MaxGeneticCases
  /\ FreeCells(locked, H) <= MaxGeneticFree

Init ==
  /\ stashHeight \in 1..MaxHeight
  /\ lockedPositions \in { l \in LockedLayouts : WellFormedLocked(l, stashHeight) }
  /\ caseCounts \in AllCaseCounts
  /\ method \in Methods
  /\ method = "genetic" => GeneticInput(caseCounts, stashHeight, lockedPositions)
  /\ idCounter = 0
  /\ callNo = 1
  /\ second = "none"
  /\ firstResult = <<>>
  /\ AppMounted
  /\ ServerStarted
  /\ FreshCall

(***************************************************************************)
(* optimizeStashLayout                                                     *)
(***************************************************************************)
\* steps 1 and 2: expand the counts, then sort
Expand ==
  /\ pc = "expand"
  /\ LET cases == ExpandInstances(caseCounts, idCounter) IN
       /\ allCases' = sortCases(cases, caseCounts)
       /\ idCounter' = StartIdCounter(idCounter) + Len(cases)
  /\ pc' = "dispatch"
  /\ UNCHANGED << inputVars, ran, greedyVars, geneticVars, result, callVars, appVars, serverVars >>

\* a switch whose default branch is the genetic packer
packerForDefaultGenetic(m) ==
  CASE m = "greedy"  -> "greedy"
    [] m = "genetic" -> "genetic"
    [] OTHER         -> "genetic"

\* step 3: switch (method)
packerFor(m) ==
  CASE m = "greedy"  -> "greedy"
    [] m = "genetic" -> "genetic"
    [] OTHER         -> "greedy"

Dispatch ==
  /\ pc = "dispatch"
  /\ ran' = packerFor(method)
  /\ pc' = IF packerFor(method) = "genetic" THEN "seed" ELSE "locked"
  /\ UNCHANGED << inputVars, idCounter, allCases, greedyVars, geneticVars,
                  result, callVars, appVars, serverVars >>

(***************************************************************************)
(* greedyOptimization, step by step                                        *)
(***************************************************************************)
\* the locked cases are pushed and marked; remainingCases = [...allCases]
PlaceLocked ==
  /\ pc = "locked"
  /\ LET st == greedyStart(allCases, stashHeight, lockedPositions) IN
       /\ grid' = st.grid
       /\ placedCases' = st.placedCases
       /\ remainingCases' = st.remainingCases
  /\ cell' = 0
  /\ pc' = "scan"
  /\ UNCHANGED << inputVars, idCounter, allCases, ran, geneticVars, result, callVars, appVars, serverVars >>

\* one iteration of the inner loop of the scan
ScanCell ==
  /\ pc = "scan"
  /\ cell < GRID_WIDTH * stashHeight
  /\ LET st == scanCell([grid |-> grid, placedCases |-> placedCases,
                         remainingCases |-> remainingCases],
                        cell % GRID_WIDTH, cell \div GRID_WIDTH, stashHeight) IN
       /\ grid' = st.grid
       /\ placedCases' = st.placedCases
       /\ remainingCases' = st.remainingCases
  /\ cell' = cell + 1
  /\ UNCHANGED << inputVars, pc, idCounter, allCases, ran, geneticVars, result,
                  callVars, appVars, serverVars >>

\* return { grid, placedCases, unplacedCases: remainingCases, stashHeight }
GreedyReturn ==
  /\ pc = "scan"
  /\ cell = GRID_WIDTH * stashHeight
  /\ result' = [ grid |-> grid, placedCases |-> placedCases,
                 unplacedCases |-> remainingCases ]
  /\ pc' = "done"
  /\ UNCHANGED << inputVars, idCounter, allCases, ran, greedyVars, geneticVars,
                  callVars, appVars, serverVars >>

(***************************************************************************)
(* geneticOptimization: helpers                                            *)
(***************************************************************************)
\* The source runs 50 individuals for 100 generations.  The model runs the
\* same loops on a population and a number of generations small enough to
\* enumerate every population; the two derived counts keep the source's
\* formulas (one greedy seed and one elite at these sizes).
POPULATION_SIZE == 5
GENERATIONS == 2

tournamentSize == 5
seedMaxAttempts == 100
mutateMaxAttempts == 50

\* the value of POPULATION_SIZE in the source
SourcePopulationSize == 50

\* Math.floor(size * 0.3)
sortedCountOf(size) == (size * 3) \div 10

sortedIndividualCount == sortedCountOf(POPULATION_SIZE)

\* an elite of a tenth of the population
eliteCountTenth(size) == size \div 10

\* Math.floor(size * ELITISM_RATE), ELITISM_RATE = 0.2
eliteCountOf(size) == (size * 2) \div 10

eliteCount == eliteCountOf(POPULATION_SIZE)

isLockedCase(c) == c.isLocked
notLockedCase(c) == ~c.isLocked

RECURSIVE MaxOver(_, _)
\* Math.max folded over a sequence of numbers, from the start value
MaxOver(start, nums) ==
  IF nums = <<>> THEN start ELSE MaxOver(Max(start, Head(nums)), Tail(nums))

\* The fitness multiplied by totalCases * GRID_WIDTH * stashHeight, which is
\* the same for every individual of a run and makes both quotients integers.
\* With no instance at all the source's fitness is NaN for every individual
\* and every comparison counts as a tie; the product is 0 for every
\* individual.
evaluateFitness(individual, cases, H) ==
  LET placedCount == Len(SelectSeq(individual, notLockedCase))
      totalCases  == Len(cases)
      maxX == MaxOver(0, [ i \in DOMAIN individual |-> individual[i].x + individual[i].width ])
      maxY == MaxOver(0, [ i \in DOMAIN individual |-> individual[i].y + individual[i].height ])
      boundingBoxArea == maxX * maxY
      maxPossibleArea == GRID_WIDTH * H
      rowAlignmentBonus ==
        10 * Cardinality({ i \in DOMAIN individual :
                             individual[i].x % individual[i].width = 0 })
  IN  placedCount * 1000 * maxPossibleArea
      + (maxPossibleArea - boundingBoxArea) * 500 * totalCases
      + rowAlignmentBonus * totalCases * maxPossibleArea

RECURSIVE InsertByFitnessAscending(_, _)
\* stable insertion for the comparator (a, b) => a.fitness - b.fitness
InsertByFitnessAscending(sorted, e) ==
  IF sorted = <<>> THEN <<e>>
  ELSE IF e.fitness < Head(sorted).fitness
         THEN <<e>> \o sorted
         ELSE <<Head(sorted)>> \o InsertByFitnessAscending(Tail(sorted), e)

RECURSIVE InsertByFitness(_, _)
\* stable insertion for the comparator (a, b) => b.fitness - a.fitness
InsertByFitness(sorted, e) ==
  IF sorted = <<>> THEN <<e>>
  ELSE IF e.fitness > Head(sorted).fitness
         THEN <<e>> \o sorted
         ELSE <<Head(sorted)>> \o InsertByFitness(Tail(sorted), e)

RECURSIVE SortByFitnessFrom(_, _)
SortByFitnessFrom(rest, sorted) ==
  IF rest = <<>> THEN sorted
  ELSE SortByFitnessFrom(Tail(rest), InsertByFitness(sorted, Head(rest)))

\* population.map(individual => ({individual, fitness})) sorted by fitness, descending
fitnessScoresOf(pop, cases, H) ==
  SortByFitnessFrom([ i \in DOMAIN pop |->
                        [ individual |-> pop[i],
                          fitness |-> evaluateFitness(pop[i], cases, H) ] ],
                    <<>>)

\* one tournament: the entries at the drawn indices, sorted, the first one wins
tournament(fitnessScores, draws) ==
  SortByFitnessFrom([ k \in DOMAIN draws |-> fitnessScores[draws[k]] ], <<>>)[1].individual

\* The individuals a tournament can return.  Every winner of some draw is also
\* the winner of the draw that hits its index tournamentSize times, so the
\* draws that repeat one index give every outcome.
tournamentWinners(fitnessScores) ==
  { tournament(fitnessScores, [ k \in 1..tournamentSize |-> i ]) :
      i \in DOMAIN fitnessScores }

\* a test loop that accepts every placement
canPlaceAlways(g, c) == TRUE

\* the test loop of crossover: cells outside the grid are not looked at
canPlaceClipped(g, c) ==
  \A yy \in DOMAIN g : \A xx \in DOMAIN g[yy] :
     (yy >= c.y /\ yy < c.y + c.height /\ xx >= c.x /\ xx < c.x + c.width)
       => g[yy][xx] = Null

RECURSIVE AddIds(_, _)
\* Set.add in order: the ids of a list appended to a list of distinct ids
AddIds(ids, items) ==
  IF items = <<>> THEN ids
  ELSE AddIds(IF Head(items).id \in Range(ids) THEN ids ELSE Append(ids, Head(items).id),
              Tail(items))

\* Array.prototype.find by id: <<>> (undefined) or a one-element sequence
findById(items, id) ==
  LET hits == SelectSeq(items, LAMBDA c : c.id = id)
  IN  IF hits = <<>> THEN <<>> ELSE <<hits[1]>>

RECURSIVE crossoverFrom(_, _, _, _, _, _)
\* the loop over allCaseIds from position k; coins[k] is Math.random() < 0.5
crossoverFrom(k, ids, coins, st, parent1Cases, parent2Cases) ==
  IF k > Len(ids) THEN st.child
  ELSE LET chosenCase == IF coins[k] THEN findById(parent1Cases, ids[k])
                                     ELSE findById(parent2Cases, ids[k])
       IN  IF chosenCase # <<>> /\ canPlaceClipped(st.grid, chosenCase[1])
             THEN crossoverFrom(k + 1, ids, coins,
                    [ child |-> Append(st.child, chosenCase[1]),
                      grid  |-> MarkCells(st.grid, chosenCase[1].x, chosenCase[1].y,
                                          chosenCase[1].width, chosenCase[1].height,
                                          ids[k]) ],
                    parent1Cases, parent2Cases)
             ELSE crossoverFrom(k + 1, ids, coins, st, parent1Cases, parent2Cases)

allCaseIdsOf(parent1, parent2) ==
  AddIds(AddIds(<<>>, SelectSeq(parent1, notLockedCase)),
         SelectSeq(parent2, notLockedCase))

\* a crossover whose child starts empty, on an empty grid
crossoverWithoutLocked(parent1, parent2, coins, H) ==
  crossoverFrom(1, allCaseIdsOf(parent1, parent2), coins,
                [ child |-> <<>>, grid |-> EmptyGrid(H) ],
                SelectSeq(parent1, notLockedCase),
                SelectSeq(parent2, notLockedCase))

crossover(parent1, parent2, coins, H) ==
  LET lockedCases == SelectSeq(parent1, isLockedCase)
  IN  crossoverFrom(1, allCaseIdsOf(parent1, parent2), coins,
                    [ child |-> lockedCases,
                      grid  |-> MarkAll(EmptyGrid(H), lockedCases) ],
                    SelectSeq(parent1, notLockedCase),
                    SelectSeq(parent2, notLockedCase))

\* the values of (randomOrientation, randomX, randomY) of one attempt
Draws(orientations, H) ==
  [ o : DOMAIN orientations, x : 0..(GRID_WIDTH - 1), y : 0..(H - 1) ]

\* the test of one attempt without its two comparisons against the grid's
\* size: only the cells inside the grid are looked at
drawFitsUnbounded(g, orientations, d, H) ==
  canPlaceClipped(g, [ x |-> d.x, y |-> d.y, width |-> orientations[d.o].width,
                       height |-> orientations[d.o].height ])

\* the test of one attempt: inside the grid and on empty cells only
drawFits(g, orientations, d, H) ==
  /\ d.x + orientations[d.o].width <= GRID_WIDTH
  /\ d.y + orientations[d.o].height <= H
  /\ ~hasCollision(g, d.x, d.y, orientations[d.o].width, orientations[d.o].height)

\* What an attempt loop of maxAttempts random draws ends with: the first draw
\* that fits, or <<>> when every draw failed, which takes a draw that can fail.
attemptOutcomes(g, orientations, H, maxAttempts) ==
  LET fitting == { d \in Draws(orientations, H) : drawFits(g, orientations, d, H) }
      failing == Draws(orientations, H) \ fitting
  IN  (IF maxAttempts > 0 THEN fitting ELSE {})
      \cup (IF failing # {} \/ maxAttempts = 0 THEN { <<>> } ELSE {})

\* the grid of mutate: every case whose id is not the mutated one's
gridWithout(individual, id, H) ==
  MarkAll(EmptyGrid(H), SelectSeq(individual, LAMBDA c : c.id # id))

\* Array.prototype.indexOf
indexOf(s, e) == CHOOSE i \in DOMAIN s : s[i] = e /\ \A j \in 1..(i - 1) : s[j] # e

\* mutate with its random values: pick is the index drawn among the non-locked
\* cases, d the first draw that fits (<<>> when none did)
mutate(individual, cases, H, pick, d) ==
  LET nonLockedCases == SelectSeq(individual, notLockedCase) IN
  IF nonLockedCases = <<>> THEN individual
  ELSE LET caseToMutate == nonLockedCases[pick]
           index == indexOf(individual, caseToMutate)
           caseDef == findById(cases, caseToMutate.id)
       IN  IF caseDef = <<>> \/ d = <<>> THEN individual
           ELSE LET o == orientationsOf(caseDef[1])[d.o]
                IN  [ individual EXCEPT ![index] =
                        [ caseToMutate EXCEPT !.x = d.x, !.y = d.y,
                                              !.width = o.width,
                                              !.height = o.height,
                                              !.rotated = o.rotated ] ]

\* the values mutate can return
mutations(individual, cases, H) ==
  LET nonLockedCases == SelectSeq(individual, notLockedCase) IN
  IF nonLockedCases = <<>> THEN { individual }
  ELSE UNION { LET caseToMutate == nonLockedCases[pick]
                   caseDef == findById(cases, caseToMutate.id)
                   g == gridWithout(individual, caseToMutate.id, H)
               IN  IF caseDef = <<>> THEN { individual }
                   ELSE { mutate(individual, cases, H, pick, d) :
                            d \in attemptOutcomes(g, orientationsOf(caseDef[1]), H,
                                                  mutateMaxAttempts) }
               : pick \in DOMAIN nonLockedCases }

RECURSIVE randomFrom(_, _, _)
\* the loop over shuffledCases: st = [individual, grid]; the set of results
randomFrom(cases, st, H) ==
  IF cases = <<>> THEN { st.individual }
  ELSE LET caseToPlace == Head(cases)
           os == orientationsOf(caseToPlace)
       IN  UNION { IF d = <<>> THEN randomFrom(Tail(cases), st, H)
                   ELSE randomFrom(Tail(cases),
                          [ individual |->
                              Append(st.individual,
                                     [ id |-> caseToPlace.id, type |-> caseToPlace.type,
                                       x |-> d.x, y |-> d.y,
                                       width |-> os[d.o].width,
                                       height |-> os[d.o].height,
                                       rotated |-> os[d.o].rotated,
                                       isLocked |-> FALSE ]),
                            grid |-> MarkCells(st.grid, d.x, d.y, os[d.o].width,
                                               os[d.o].height, caseToPlace.id) ],
                          H)
                   : d \in attemptOutcomes(st.grid, os, H, seedMaxAttempts) }

\* [...allCases].sort(() => Math.random() - 0.5): some permutation
shuffles(cases) ==
  { [ i \in DOMAIN cases |-> cases[p[i]] ] : p \in Permutations(DOMAIN cases) }

\* the individuals the random seeding can build
randomIndividuals(cases, H, locked) ==
  UNION { randomFrom(sh, [ individual |-> MapLocked(locked),
                           grid |-> MarkAll(EmptyGrid(H), locked) ], H)
          : sh \in shuffles(cases) }

\* the end of geneticOptimization: grid of the best, unplaced by id
extractResult(pop, cases, H) ==
  LET bestIndividual == fitnessScoresOf(pop, cases, H)[1].individual
      placedCaseIds == { bestIndividual[i].id : i \in DOMAIN bestIndividual }
  IN  [ grid |-> MarkAll(EmptyGrid(H), bestIndividual),
        placedCases |-> bestIndividual,
        unplacedCases |-> SelectSeq(cases, LAMBDA c : c.id \notin placedCaseIds) ]

(***************************************************************************)
(* geneticOptimization, step by step                                       *)
(***************************************************************************)
\* population.push(greedyOptimization(...).placedCases), sortedIndividualCount times
SeedSorted ==
  /\ pc = "seed"
  /\ Len(population) < sortedIndividualCount
  /\ population' = Append(population,
                          greedyOptimization(allCases, stashHeight, lockedPositions).placedCases)
  /\ UNCHANGED << inputVars, pc, idCounter, allCases, ran, greedyVars,
                  newPopulation, generation, result, callVars, appVars, serverVars >>

\* one random individual is built and pushed
SeedRandom ==
  /\ pc = "seed"
  /\ Len(population) >= sortedIndividualCount
  /\ Len(population) < POPULATION_SIZE
  /\ \E individual \in randomIndividuals(allCases, stashHeight, lockedPositions) :
       population' = Append(population, individual)
  /\ UNCHANGED << inputVars, pc, idCounter, allCases, ran, greedyVars,
                  newPopulation, generation, result, callVars, appVars, serverVars >>

\* the head of a generation: evaluate, sort, carry the elite over
Elitism ==
  /\ pc = "seed" \/ pc = "evolve"
  /\ Len(population) = POPULATION_SIZE
  /\ generation < GENERATIONS
  /\ LET fitnessScores == fitnessScoresOf(population, allCases, stashHeight)
     IN  newPopulation' = [ i \in 1..eliteCount |-> fitnessScores[i].individual ]
  /\ pc' = "offspring"
  /\ UNCHANGED << inputVars, idCounter, allCases, ran, greedyVars, population,
                  generation, result, callVars, appVars, serverVars >>

\* one iteration of the while loop: two tournaments, crossover, maybe mutate
Offspring ==
  /\ pc = "offspring"
  /\ Len(newPopulation) < POPULATION_SIZE
  /\ LET fitnessScores == fitnessScoresOf(population, allCases, stashHeight) IN
     \E parent1 \in tournamentWinners(fitnessScores),
        parent2 \in tournamentWinners(fitnessScores) :
       \E coins \in [ DOMAIN allCaseIdsOf(parent1, parent2) -> BOOLEAN ] :
         LET child == crossover(parent1, parent2, coins, stashHeight) IN
         \E offspring \in { child } \cup mutations(child, allCases, stashHeight) :
           newPopulation' = Append(newPopulation, offspring)
  /\ UNCHANGED << inputVars, pc, idCounter, allCases, ran, greedyVars, population,
                  generation, result, callVars, appVars, serverVars >>

\* the end of a generation without generation++
ReplaceWithoutCount ==
  /\ pc = "offspring"
  /\ Len(newPopulation) >= POPULATION_SIZE
  /\ population' = newPopulation
  /\ newPopulation' = <<>>
  /\ pc' = "evolve"
  /\ UNCHANGED << inputVars, idCounter, allCases, ran, greedyVars, generation,
                  result, callVars, appVars, serverVars >>

\* population = newPopulation; generation++
Replace ==
  /\ pc = "offspring"
  /\ Len(newPopulation) >= POPULATION_SIZE
  /\ population' = newPopulation
  /\ newPopulation' = <<>>
  /\ generation' = generation + 1
  /\ pc' = "evolve"
  /\ UNCHANGED << inputVars, idCounter, allCases, ran, greedyVars, result, callVars, appVars, serverVars >>

\* after the last generation: the fittest individual is returned
GeneticReturn ==
  /\ pc = "seed" \/ pc = "evolve"
  /\ Len(population) = POPULATION_SIZE
  /\ generation >= GENERATIONS
  /\ result' = extractResult(population, allCases, stashHeight)
  /\ pc' = "done"
  /\ UNCHANGED << inputVars, idCounter, allCases, ran, greedyVars, geneticVars,
                  callVars, appVars, serverVars >>

(***************************************************************************)
(* A caller that calls again                                               *)
(***************************************************************************)
RECURSIVE KindCounts(_, _)
\* the kinds of a list of instances as a counts object, keys in order of
\* first appearance
KindCounts(cases, acc) ==
  IF cases = <<>> THEN acc
  ELSE LET t == Head(cases).type
           seen == { i \in DOMAIN acc : acc[i].key = t }
       IN  KindCounts(Tail(cases),
             IF seen = {} THEN Append(acc, [key |-> t, count |-> 1])
             ELSE [ i \in DOMAIN acc |->
                      IF i \in seen THEN [acc[i] EXCEPT !.count = @ + 1] ELSE acc[i] ])

StartCall ==
  /\ pc' = "expand"
  /\ allCases' = <<>>
  /\ ran' = "none"
  /\ grid' = <<>>
  /\ placedCases' = <<>>
  /\ remainingCases' = <<>>
  /\ cell' = 0
  /\ population' = <<>>
  /\ newPopulation' = <<>>
  /\ generation' = 0
  /\ result' = <<>>

\* the same arguments are passed again
CallAgain ==
  /\ pc = "done" /\ callNo = 1 /\ method = "greedy"
  /\ callNo' = 2
  /\ second' = "repeat"
  /\ firstResult' = result
  /\ StartCall
  /\ UNCHANGED << inputVars, idCounter, appVars, serverVars >>

\* the result is fed back: placedCases as lockedPositions, the kinds of
\* unplacedCases as caseCounts
CallRoundTrip ==
  /\ pc = "done" /\ callNo = 1 /\ method = "greedy"
  /\ callNo' = 2
  /\ second' = "roundtrip"
  /\ firstResult' = result
  /\ lockedPositions' = result.placedCases
  /\ caseCounts' = KindCounts(result.unplacedCases, <<>>)
  /\ StartCall
  /\ UNCHANGED << stashHeight, method, idCounter, appVars, serverVars >>

Next ==
  \/ Expand
  \/ Dispatch
  \/ PlaceLocked
  \/ ScanCell
  \/ GreedyReturn
  \/ SeedSorted
  \/ SeedRandom
  \/ Elitism
  \/ Offspring
  \/ Replace
  \/ GeneticReturn
  \/ CallAgain
  \/ CallRoundTrip

Spec == Init /\ [][Next]_vars

(***************************************************************************)
(* Calls with kinds that are too large for the grid                        *)
(***************************************************************************)
\* custom_3x3 fits no grid of height 1 or 2, custom_2x2 fits none of height 1
LargeKeys == { "custom_3x3", "custom_2x2", "custom_1x1" }

LargeCaseCounts ==
  UNION { { c \in [1..n -> [ key : LargeKeys, count : 1..MaxCount ]] :
              DistinctKeys(c) } : n \in 0..MaxKeys }

LargeLocked == { <<>>, <<P1>>, <<P2, P4>> }

\* the instance fits the grid in neither orientation
Unfit(c, H) ==
  /\ c.width > GRID_WIDTH \/ c.height > H
  /\ c.height > GRID_WIDTH \/ c.width > H

\* the expanded instances that fit the grid in some orientation
FittingCount(counts, H) ==
  Len(SelectSeq(ExpandInstances(counts, 0), LAMBDA c : ~Unfit(c, H)))

MaxUnfit == 1   \* instances of a genetic run that fit no orientation

\* The genetic runs that are enumerated: as in GeneticInput, with instances
\* that fit no orientation (no draw places them) next to the one that fits.
LargeGeneticInput(counts, H, locked) ==
  /\ FittingCount(counts, H) <= MaxGeneticCases
  /\ TotalCount(counts) - FittingCount(counts, H) <= MaxUnfit
  /\ FittingCount(counts, H) > 0 => FreeCells(locked, H) <= MaxGeneticFree

LargeInit ==
  /\ stashHeight \in 1..MaxHeight
  /\ lockedPositions \in { l \in LargeLocked : WellFormedLocked(l, stashHeight) }
  /\ caseCounts \in LargeCaseCounts
  /\ method \in { "greedy", "genetic" }
  /\ method = "genetic" => LargeGeneticInput(caseCounts, stashHeight, lockedPositions)
  /\ idCounter = 0
  /\ callNo = 1
  /\ second = "none"
  /\ firstResult = <<>>
  /\ AppMounted
  /\ ServerStarted
  /\ FreshCall

LargeSpec == LargeInit /\ [][Next]_vars

(***************************************************************************)
(* Genetic runs with more instances, under chosen outcomes of the random   *)
(* values.  Every step below is a step of the action of Spec it is named   *)
(* after, with particular values of Math.random(); what these runs return, *)
(* geneticOptimization can return.                                         *)
(***************************************************************************)
MaxDrawnCases == 5   \* instances of such a run

R4 == Placed(<<"sicc", 1707>>, "sicc", 8, 0, 2, 1, FALSE, TRUE)

\* no locked case, or the right part of row 0 locked
DrawnLocked == { <<>>, <<R2, R4>> }

\* an attempt loop whose first fitting draw is the first cell in row-major
\* order where some orientation fits; <<>> when no draw can fit
firstFittingDraw(g, orientations, H) ==
  LET fitting == attemptOutcomes(g, orientations, H, seedMaxAttempts) \ { <<>> }
  IN  IF fitting = {} THEN <<>>
      ELSE CHOOSE d \in fitting :
             \A e \in fitting :
               \/ d.y < e.y
               \/ d.y = e.y /\ d.x < e.x
               \/ d.y = e.y /\ d.x = e.x /\ d.o <= e.o

RECURSIVE drawnFrom(_, _, _)
\* randomFrom with these attempt loops: one of its results
drawnFrom(cases, st, H) ==
  IF cases = <<>> THEN st.individual
  ELSE LET caseToPlace == Head(cases)
           os == orientationsOf(caseToPlace)
           d == firstFittingDraw(st.grid, os, H)
       IN  IF d = <<>> THEN drawnFrom(Tail(cases), st, H)
           ELSE drawnFrom(Tail(cases),
                  [ individual |->
                      Append(st.individual,
                             [ id |-> caseToPlace.id, type |-> caseToPlace.type,
                               x |-> d.x, y |-> d.y,
                               width |-> os[d.o].width, height |-> os[d.o].height,
                               rotated |-> os[d.o].rotated, isLocked |-> FALSE ]),
                    grid |-> MarkCells(st.grid, d.x, d.y, os[d.o].width,
                                       os[d.o].height, caseToPlace.id) ],
                  H)

Reverse(s) == [ i \in DOMAIN s |-> s[Len(s) + 1 - i] ]

\* two of the permutations the shuffle can produce
drawnShuffles(cases) == { cases, Reverse(cases) }

\* two of the coin sequences of a crossover: every case from parent1, and
\* every case but the last from parent1
drawnCoins(ids) ==
  { [ k \in DOMAIN ids |-> TRUE ], [ k \in DOMAIN ids |-> k < Len(ids) ] }

DrawnInit ==
  /\ stashHeight = 2
  /\ lockedPositions \in DrawnLocked
  /\ \E n \in 1..MaxDrawnCases :
       caseCounts = << [ key |-> "custom_1x1", count |-> n ] >>
  /\ method = "genetic"
  /\ idCounter = 0
  /\ callNo = 1
  /\ second = "none"
  /\ firstResult = <<>>
  /\ AppMounted
  /\ ServerStarted
  /\ FreshCall

\* SeedRandom with a shuffle of drawnShuffles and the attempt loops of drawnFrom
DrawnSeedRandom ==
  /\ pc = "seed"
  /\ Len(population) >= sortedIndividualCount
  /\ Len(population) < POPULATION_SIZE
  /\ \E sh \in drawnShuffles(allCases) :
       population' =
         Append(population,
                drawnFrom(sh, [ individual |-> MapLocked(lockedPositions),
                                grid |-> MarkAll(EmptyGrid(stashHeight),
                                                 lockedPositions) ],
                          stashHeight))
  /\ UNCHANGED << inputVars, pc, idCounter, allCases, ran, greedyVars,
                  newPopulation, generation, result, callVars, appVars, serverVars >>

\* Offspring where the first tournament draws every index (the fittest
\* wins), the coins are of drawnCoins and Math.random() >= MUTATION_RATE
DrawnOffspring ==
  /\ pc = "offspring"
  /\ Len(newPopulation) < POPULATION_SIZE
  /\ LET fitnessScores == fitnessScoresOf(population, allCases, stashHeight)
         parent1 == tournament(fitnessScores,
                               [ k \in 1..tournamentSize |->
                                   ((k - 1) % Len(fitnessScores)) + 1 ])
     IN  \E parent2 \in tournamentWinners(fitnessScores) :
           \E coins \in drawnCoins(allCaseIdsOf(parent1, parent2)) :
             newPopulation' =
               Append(newPopulation, crossover(parent1, parent2, coins, stashHeight))
  /\ UNCHANGED << inputVars, pc, idCounter, allCases, ran, greedyVars, population,
                  generation, result, callVars, appVars, serverVars >>

DrawnNext ==
  \/ Expand
  \/ Dispatch
  \/ SeedSorted
  \/ DrawnSeedRandom
  \/ Elitism
  \/ DrawnOffspring
  \/ Replace
  \/ GeneticReturn

DrawnSpec == DrawnInit /\ [][DrawnNext]_vars

(***************************************************************************)
(* The seeding of the genetic packer on a grid with room: every individual *)
(* the random seeding can build for one instance on one row                *)
(***************************************************************************)
SeedKeys == { "custom_1x1", "custom_2x1" }

SeedLocked == { <<>>, <<R4>> }

SeedInit ==
  /\ stashHeight = 1
  /\ lockedPositions \in SeedLocked
  /\ \E key \in SeedKeys : caseCounts = << [key |-> key, count |-> 1] >>
  /\ method = "genetic"
  /\ idCounter = 0
  /\ callNo = 1
  /\ second = "none"
  /\ firstResult = <<>>
  /\ AppMounted
  /\ ServerStarted
  /\ FreshCall

\* the call up to the head of the first generation
SeedNext ==
  \/ Expand
  \/ Dispatch
  \/ SeedSorted
  \/ SeedRandom
  \/ Elitism

SeedSpec == SeedInit /\ [][SeedNext]_vars

(***************************************************************************)
(* The App component: the handlers behind the form and the grid display    *)
(***************************************************************************)
\* STASH_DIMENSIONS[DEFAULT_STASH_EDITION].height: every handler passes the
\* default edition, 68 rows in the source
EditionHeight == 2

MaxOwned == 3   \* cases the user enters with the + button
MaxDrops == 1   \* cases the user drops onto the grid

\* the kinds the user works with
AppKinds == { "weapons", "custom_1x1" }

\* the cells <<x, y>> the user drops a case on
DropCells == { <<0, 0>>, <<5, 0>>, <<9, 1>> }

\* the facade as one function, for the methods that dispatch to the greedy
\* packer (the runs of the genetic packer are the steps of Spec)
optimizeStashLayout(counts, H, locked, m) ==
  LET sorted == { sortCases(ExpandInstances(c, 0), c) : c \in { counts } }
      layouts == { greedyOptimization(cases, H, locked) : cases \in sorted }
  IN  CHOOSE layout \in layouts : TRUE

\* placedCounts (useMemo): the kinds of the placed cases
placedCounts == KindCounts(manuallyPlacedCases, <<>>)

RECURSIVE AddCountsFrom(_, _, _)
AddCountsFrom(acc, b, i) ==
  IF i > Len(b) THEN acc
  ELSE AddCountsFrom(
         WithCount(acc, b[i].key, ReadCount(acc, b[i].key) + ReadCount(b, b[i].key)),
         b, i + 1)

\* InputForm: const totalOwned = { ...caseCounts }, then each key of
\* placedCounts added
totalOwnedOf(counts, placedKinds) == AddCountsFrom(counts, placedKinds, 1)

RECURSIVE AddPlaced(_, _)
\* placed.forEach(p => counts[p.type] = (counts[p.type] || 0) + 1)
AddPlaced(counts, placed) ==
  IF placed = <<>> THEN counts
  ELSE AddPlaced(WithCount(counts, Head(placed).type,
                           ReadCount(counts, Head(placed).type) + 1),
                 Tail(placed))

RECURSIVE SubtractPlaced(_, _)
\* placed.forEach(p => counts[p.type] = Math.max(0, (counts[p.type] || 0) - 1))
SubtractPlaced(counts, placed) ==
  IF placed = <<>> THEN counts
  ELSE SubtractPlaced(WithCount(counts, Head(placed).type,
                                Max(0, ReadCount(counts, Head(placed).type) - 1)),
                      Tail(placed))

\* cases.filter(c => c.isLocked)
lockedOf(cases) == SelectSeq(cases, LAMBDA c : c.isLocked)

\* layout.placedCases.filter(c => !lockedIds.has(c.id))
WithoutIds(cases, lockedCases) ==
  SelectSeq(cases, LAMBDA c : \A i \in DOMAIN lockedCases : lockedCases[i].id # c.id)

RECURSIVE SumCounts(_)
\* Object.values(counts).reduce((sum, count) => sum + count, 0)
SumCounts(counts) ==
  IF counts = <<>> THEN 0 ELSE Head(counts).count + SumCounts(Tail(counts))

\* totalCases: remaining plus placed, which enables the two buttons
totalCases == SumCounts(totalOwnedOf(appCaseCounts, placedCounts))

\* the engine's variables while the app runs
EngineIdle ==
  UNCHANGED << inputVars, pc, idCounter, allCases, ran, greedyVars, geneticVars,
               result, callVars, serverVars >>

\* nothing is pending: the buttons are enabled (isLoading is false)
Idle == pendingClick = <<>>

\* InputForm.handleIncrement, through onCaseCountsChange
handleIncrement ==
  /\ Idle
  /\ totalCases < MaxOwned
  /\ \E t \in AppKinds :
       appCaseCounts' = ensureAllCaseTypes(
         WithCount(appCaseCounts, t, ReadCount(appCaseCounts, t) + 1))
  /\ submitted' = <<>>
  /\ calledBy' = "none"
  /\ UNCHANGED << manuallyPlacedCases, optimizationMethod, pendingClick,
                  idCounterRef >>
  /\ EngineIdle

\* InputForm.handleDecrement, through onCaseCountsChange
handleDecrement ==
  /\ Idle
  /\ \E t \in AppKinds :
       appCaseCounts' = ensureAllCaseTypes(
         WithCount(appCaseCounts, t, Max(0, ReadCount(appCaseCounts, t) - 1)))
  /\ submitted' = <<>>
  /\ calledBy' = "none"
  /\ UNCHANGED << manuallyPlacedCases, optimizationMethod, pendingClick,
                  idCounterRef >>
  /\ EngineIdle

\* InputForm.handleReset, through onCaseCountsChange
handleReset ==
  /\ Idle
  /\ \E t \in AppKinds :
       appCaseCounts' = ensureAllCaseTypes(WithCount(appCaseCounts, t, 0))
  /\ submitted' = <<>>
  /\ calledBy' = "none"
  /\ UNCHANGED << manuallyPlacedCases, optimizationMethod, pendingClick,
                  idCounterRef >>
  /\ EngineIdle

\* onClearAll
handleClear ==
  /\ Idle
  /\ manuallyPlacedCases' = <<>>
  /\ appCaseCounts' = initialCounts
  /\ submitted' = <<>>
  /\ calledBy' = "none"
  /\ UNCHANGED << optimizationMethod, pendingClick, idCounterRef >>
  /\ EngineIdle

\* types.ts: OptimizationMethod = 'greedy' | 'genetic'
handleOptimizationMethodChange ==
  /\ Idle
  /\ \E m \in { "greedy", "genetic" } :
       /\ m # optimizationMethod
       /\ optimizationMethod' = m
  /\ submitted' = <<>>
  /\ calledBy' = "none"
  /\ UNCHANGED << appCaseCounts, manuallyPlacedCases, pendingClick, idCounterRef >>
  /\ EngineIdle

\* 'Place Remaining Cases': InputForm.handleSubmit, then App.handleOptimize
\* up to its setTimeout
ClickOptimize ==
  /\ Idle
  /\ totalCases # 0
  /\ packerFor(optimizationMethod) = "greedy"
  /\ pendingClick' = << [ handler |-> "handleOptimize",
                          newCaseCounts |-> totalOwnedOf(appCaseCounts, placedCounts),
                          method |-> optimizationMethod ] >>
  /\ submitted' = <<>>
  /\ calledBy' = "none"
  /\ UNCHANGED << appCaseCounts, manuallyPlacedCases, optimizationMethod,
                  idCounterRef >>
  /\ EngineIdle

\* App.handleOptimize: the timer callback
OptimizeTimeout ==
  /\ pendingClick # <<>>
  /\ pendingClick[1].handler = "handleOptimize"
  /\ LET newCaseCounts == pendingClick[1].newCaseCounts
         remainingCounts == SubtractPlaced(newCaseCounts, manuallyPlacedCases)
         lockedCases == lockedOf(manuallyPlacedCases)
         layout == optimizeStashLayout(remainingCounts, EditionHeight, lockedCases,
                                       pendingClick[1].method)
         autoFilledCases == WithoutIds(layout.placedCases, lockedCases)
         allPlaced == lockedCases \o autoFilledCases
     IN  /\ appCaseCounts' = SubtractPlaced(ensureAllCaseTypes(newCaseCounts), allPlaced)
         /\ manuallyPlacedCases' = allPlaced
         /\ submitted' = << newCaseCounts >>
  /\ pendingClick' = <<>>
  /\ calledBy' = "handleOptimize"
  /\ UNCHANGED << optimizationMethod, idCounterRef >>
  /\ EngineIdle

\* 'Optimize All': InputForm.handleOptimizeAll, then App.handleOptimizeAll up
\* to its setTimeout
ClickOptimizeAll ==
  /\ Idle
  /\ totalCases # 0
  /\ packerFor(optimizationMethod) = "greedy"
  /\ pendingClick' = << [ handler |-> "handleOptimizeAll",
                          newCaseCounts |-> totalOwnedOf(appCaseCounts, placedCounts),
                          method |-> optimizationMethod ] >>
  /\ manuallyPlacedCases' = <<>>
  /\ appCaseCounts' = <<>>
  /\ submitted' = <<>>
  /\ calledBy' = "none"
  /\ UNCHANGED << optimizationMethod, idCounterRef >>
  /\ EngineIdle

\* App.handleOptimizeAll: the timer callback
OptimizeAllTimeout ==
  /\ pendingClick # <<>>
  /\ pendingClick[1].handler = "handleOptimizeAll"
  /\ LET newCaseCounts == pendingClick[1].newCaseCounts
         layout == optimizeStashLayout(newCaseCounts, EditionHeight, <<>>,
                                       pendingClick[1].method)
     IN  /\ manuallyPlacedCases' = layout.placedCases
         /\ submitted' = << newCaseCounts >>
  /\ pendingClick' = <<>>
  /\ calledBy' = "handleOptimizeAll"
  /\ UNCHANGED << appCaseCounts, optimizationMethod, idCounterRef >>
  /\ EngineIdle

\* StashGridDisplay.canPlaceCase
canPlaceCase(x, y, width, height) ==
  /\ ~(x + width > GRID_WIDTH \/ y + height > EditionHeight)
  /\ \A i \in DOMAIN manuallyPlacedCases :
       LET placed == manuallyPlacedCases[i]
       IN  ~(/\ x < placed.x + placed.width
             /\ x + width > placed.x
             /\ y < placed.y + placed.height
             /\ y + height > placed.y)

\* App.handleCasePlaced
handleCasePlaced(placedCase) ==
  LET lockedCase == [placedCase EXCEPT !.isLocked = TRUE]
      updatedPlaced == Append(manuallyPlacedCases, lockedCase)
      lockedCases == lockedOf(updatedPlaced)
      totalOwned == AddPlaced(ensureAllCaseTypes(appCaseCounts), updatedPlaced)
      remainingCounts == SubtractPlaced(ensureAllCaseTypes(totalOwned), updatedPlaced)
      layout == optimizeStashLayout(remainingCounts, EditionHeight, lockedCases,
                                    "greedy")
      autoFilledCases == WithoutIds(layout.placedCases, lockedCases)
      allPlaced == lockedCases \o autoFilledCases
  IN  /\ appCaseCounts' = SubtractPlaced(ensureAllCaseTypes(totalOwned), allPlaced)
      /\ manuallyPlacedCases' = allPlaced
      /\ calledBy' = "handleCasePlaced"

\* StashGridDisplay, the drop of a case card of a kind on cell (x, y): the
\* case handed to onCasePlaced, none if it fits in neither orientation
droppedCase(type, x, y) ==
  LET width == CASES[type].width
      height == CASES[type].height
      id == << type, idCounterRef >>
  IN  IF ReadCount(appCaseCounts, type) = 0 THEN <<>>
      ELSE IF canPlaceCase(x, y, width, height)
        THEN << Placed(id, type, x, y, width, height, FALSE, FALSE) >>
      ELSE IF width # height /\ canPlaceCase(x, y, height, width)
        THEN << Placed(id, type, x, y, height, width, TRUE, FALSE) >>
      ELSE <<>>

\* StashGridDisplay: a case card is dropped on a cell of the grid, which is
\* shown once a case is placed
handleDrop ==
  /\ Idle
  /\ manuallyPlacedCases # <<>>
  /\ idCounterRef < DateNow + MaxDrops
  /\ \E type \in AppKinds, pos \in DropCells :
       \E newCase \in Range(droppedCase(type, pos[1], pos[2])) :
         handleCasePlaced(newCase)
  /\ idCounterRef' = idCounterRef + 1
  /\ submitted' = <<>>
  /\ UNCHANGED << optimizationMethod, pendingClick >>
  /\ EngineIdle

\* App.handleCaseRemoved, for a case of the grid
handleCaseRemoved ==
  /\ Idle
  /\ \E i \in DOMAIN manuallyPlacedCases :
       LET caseToRemove == manuallyPlacedCases[i]
       IN  /\ manuallyPlacedCases' =
                SelectSeq(manuallyPlacedCases, LAMBDA c : c.id # caseToRemove.id)
           /\ appCaseCounts' = ensureAllCaseTypes(
                WithCount(appCaseCounts, caseToRemove.type,
                          ReadCount(appCaseCounts, caseToRemove.type) + 1))
  /\ submitted' = <<>>
  /\ calledBy' = "none"
  /\ UNCHANGED << optimizationMethod, pendingClick, idCounterRef >>
  /\ EngineIdle

AppInit ==
  /\ caseCounts = <<>>
  /\ stashHeight = EditionHeight
  /\ lockedPositions = <<>>
  /\ method = "greedy"
  /\ idCounter = 0
  /\ callNo = 1
  /\ second = "none"
  /\ firstResult = <<>>
  /\ AppMounted
  /\ ServerStarted
  /\ FreshCall

AppNext ==
  \/ handleIncrement
  \/ handleDecrement
  \/ handleReset
  \/ handleClear
  \/ handleOptimizationMethodChange
  \/ ClickOptimize
  \/ OptimizeTimeout
  \/ ClickOptimizeAll
  \/ OptimizeAllTimeout
  \/ handleDrop
  \/ handleCaseRemoved

AppSpec == AppInit /\ [][AppNext]_vars

(***************************************************************************)
(* The counter service: POST /tarkov-optimizer/count.  A handler suspends  *)
(* at await getCount() and at await saveCount(); fs.writeFile opens the    *)
(* file, which truncates it, and writes it in a later step.                *)
(***************************************************************************)
\* the engine and the App take no step
ClientIdle ==
  UNCHANGED << inputVars, pc, idCounter, allCases, ran, greedyVars, geneticVars,
               result, callVars, appVars >>

\* a POST arrives: the handler calls getCount(), whose readFile is pending
PostArrives ==
  /\ \E r \in Requests :
       /\ requests[r].pc = "none"
       /\ requests' = [ requests EXCEPT ![r].pc = "getCount" ]
  /\ UNCHANGED << countFile, countAtStart >>
  /\ ClientIdle

\* readFile completes: const currentCount = await getCount(); the handler
\* goes on to saveCount(currentCount + 1), whose writeFile is pending
ReadFileDone ==
  /\ \E r \in Requests :
       /\ requests[r].pc = "getCount"
       /\ requests' = [ requests EXCEPT ![r].pc = "saveCount",
                                        ![r].currentCount = parseCount(countFile) ]
  /\ UNCHANGED << countFile, countAtStart >>
  /\ ClientIdle

\* writeFile opens the file with flag 'w': the file is empty
WriteFileOpen ==
  /\ \E r \in Requests :
       /\ requests[r].pc = "saveCount"
       /\ requests' = [ requests EXCEPT ![r].pc = "writing" ]
  /\ countFile' = <<>>
  /\ UNCHANGED countAtStart
  /\ ClientIdle

\* writeFile cannot open the file: saveCount rejects, the catch answers 500
WriteFileFails ==
  /\ \E r \in Requests :
       /\ requests[r].pc = "saveCount"
       /\ requests' = [ requests EXCEPT ![r].pc = "done", ![r].status = 500 ]
  /\ UNCHANGED << countFile, countAtStart >>
  /\ ClientIdle

\* writeFile writes and resolves: the handler answers 200 with newCount
WriteFileDone ==
  /\ \E r \in Requests :
       LET newCount == requests[r].currentCount + 1 IN
       /\ requests[r].pc = "writing"
       /\ countFile' = stringifyCount(newCount)
       /\ requests' = [ requests EXCEPT ![r].pc = "done", ![r].status = 200,
                                        ![r].count = newCount ]
  /\ UNCHANGED countAtStart
  /\ ClientIdle

ServerInit ==
  /\ caseCounts = <<>>
  /\ stashHeight = 1
  /\ lockedPositions = <<>>
  /\ method = "greedy"
  /\ idCounter = 0
  /\ callNo = 1
  /\ second = "none"
  /\ firstResult = <<>>
  /\ AppMounted
  /\ FreshCall
  /\ countAtStart \in 0..MaxStoredCount
  /\ countFile = stringifyCount(countAtStart)
  /\ requests = [ r \in Requests |-> NoRequest ]

ServerNext ==
  \/ PostArrives
  \/ ReadFileDone
  \/ WriteFileOpen
  \/ WriteFileFails
  \/ WriteFileDone

ServerSpec == ServerInit /\ [][ServerNext]_vars

(***************************************************************************)
(* The expansion and the sort on their own, over more kinds of the catalog *)
(***************************************************************************)
MaxSortKeys  == 3   \* keys of a caseCounts object given to the sort
MaxSortCount == 2   \* largest count of one of them

\* kinds that meet in every rule of the comparator: three of size 3x2 (one
\* with a capital letter), two of size 1x1, one wider and one taller
SortKeys ==
  { "Key_case", "custom_3x2", "mags", "cards", "custom_1x1", "custom_4x1",
    "custom_2x3" }

SortCaseCounts ==
  UNION { { c \in [1..n -> [ key : SortKeys, count : 1..MaxSortCount ]] :
              DistinctKeys(c) } : n \in 0..MaxSortKeys }

SortInit ==
  /\ caseCounts \in SortCaseCounts
  /\ stashHeight = 1
  /\ lockedPositions = <<>>
  /\ method = "greedy"
  /\ idCounter = 0
  /\ callNo = 1
  /\ second = "none"
  /\ firstResult = <<>>
  /\ AppMounted
  /\ ServerStarted
  /\ FreshCall

SortNext == Expand

SortSpec == SortInit /\ [][SortNext]_vars

(***************************************************************************)
(* Properties                                                              *)
(***************************************************************************)
Done == pc = "done"

NonLocked(items) == SelectSeq(items, notLockedCase)
LockedOf(items) == SelectSeq(items, isLockedCase)

\* a placed case without its isLocked flag
Core(c) == [ id |-> c.id, type |-> c.type, x |-> c.x, y |-> c.y,
             width |-> c.width, height |-> c.height, rotated |-> c.rotated ]

Cores(items) == [ i \in DOMAIN items |-> Core(items[i]) ]

CellsOf(c) == { <<xx, yy>> : xx \in c.x..(c.x + c.width - 1),
                             yy \in c.y..(c.y + c.height - 1) }

GridCells == (0..(GRID_WIDTH - 1)) \X (0..(stashHeight - 1))

\* C1: in every returned layout, for locked cases that are disjoint and in
\* the grid, no two placed cases (locked or not) cover a common cell.
C1_NoOverlap ==
  (Done /\ WellFormedLocked(lockedPositions, stashHeight)) =>
    \A i, j \in DOMAIN result.placedCases :
      i # j => ~Overlap(result.placedCases[i], result.placedCases[j])

\* every case of a layout that a packer placed lies in the grid
AllInGrid(items) ==
  \A i \in DOMAIN items : ~items[i].isLocked => InGrid(items[i], stashHeight)

\* C2: every case a packer placed, in a returned layout and in every layout a
\* packer holds on the way, lies in the grid (0 <= x, 0 <= y,
\* x + width <= GRID_WIDTH, y + height <= stashHeight), and each locked case
\* that was in the grid on input is in the returned layout, still in the grid.
C2_InBounds ==
  /\ AllInGrid(placedCases)
  /\ \A i \in DOMAIN population : AllInGrid(population[i])
  /\ \A i \in DOMAIN newPopulation : AllInGrid(newPopulation[i])
  /\ Done =>
       /\ AllInGrid(result.placedCases)
       /\ \A i \in DOMAIN lockedPositions :
            InGrid(lockedPositions[i], stashHeight) =>
              \E j \in DOMAIN result.placedCases :
                /\ result.placedCases[j].isLocked
                /\ Core(result.placedCases[j]) = Core(lockedPositions[i])
                /\ InGrid(result.placedCases[j], stashHeight)

C2_Witness ==
  /\ Done /\ ran = "genetic"
  /\ \E i \in DOMAIN result.placedCases :
       /\ ~result.placedCases[i].isLocked
       /\ result.placedCases[i].x + result.placedCases[i].width = GRID_WIDTH
  /\ lockedPositions # <<>>

\* C3: in every returned layout the non-locked placed cases and the unplaced
\* cases together are the expanded instances, each id exactly once.
C3_Conservation ==
  Done =>
    /\ Len(NonLocked(result.placedCases)) + Len(result.unplacedCases) = Len(allCases)
    /\ \A k \in DOMAIN allCases :
         Cardinality({ i \in DOMAIN result.placedCases :
                         /\ ~result.placedCases[i].isLocked
                         /\ result.placedCases[i].id = allCases[k].id })
         + Cardinality({ i \in DOMAIN result.unplacedCases :
                           result.unplacedCases[i].id = allCases[k].id }) = 1

\* C4: the locked cases of every layout a packer holds or returns are the
\* locked cases of the input: same order, id, position, size and rotation.
C4_LockedPreserved ==
  /\ Done => Cores(LockedOf(result.placedCases)) = Cores(lockedPositions)
  /\ pc = "scan" => Cores(LockedOf(placedCases)) = Cores(lockedPositions)
  /\ \A i \in DOMAIN population :
       Cores(LockedOf(population[i])) = Cores(lockedPositions)
  /\ \A i \in DOMAIN newPopulation :
       Cores(LockedOf(newPopulation[i])) = Cores(lockedPositions)

C4_Witness ==
  /\ Done /\ ran = "genetic"
  /\ Len(lockedPositions) >= 3
  /\ \E i \in DOMAIN lockedPositions : ~lockedPositions[i].isLocked
  /\ NonLocked(result.placedCases) # <<>>

\* C5: a second greedy call with the same arguments returns the same layout.
C5_GreedyDeterministic ==
  (Done /\ second = "repeat") => result = firstResult

C5_Witness ==
  /\ Done /\ second = "repeat"
  /\ NonLocked(result.placedCases) # <<>>
  /\ result.unplacedCases # <<>>

\* the catalog size with rotated = FALSE or the swapped size with rotated =
\* TRUE, and a square kind not rotated
RotationValid(c) ==
  LET def == CASES[c.type] IN
  /\ \/ c.width = def.width /\ c.height = def.height /\ ~c.rotated
     \/ c.width = def.height /\ c.height = def.width /\ c.rotated
  /\ def.width = def.height => ~c.rotated

AllRotationValid(items) ==
  \A i \in DOMAIN items : ~items[i].isLocked => RotationValid(items[i])

\* C6: every case a packer placed (greedy, seeding, crossover, mutation) has
\* the catalog size of its kind and rotated = FALSE, or the swapped size and
\* rotated = TRUE; a square kind is never rotated.
C6_RotationValid ==
  /\ Done => AllRotationValid(result.placedCases)
  /\ AllRotationValid(placedCases)
  /\ \A i \in DOMAIN population : AllRotationValid(population[i])
  /\ \A i \in DOMAIN newPopulation : AllRotationValid(newPopulation[i])

C6_Witness ==
  /\ Done /\ ran = "genetic"
  /\ \E i \in DOMAIN result.placedCases :
       ~result.placedCases[i].isLocked /\ result.placedCases[i].rotated

C9_Fallback ==
  method \notin { "greedy", "genetic" } =>
    /\ ran \in { "none", "greedy" }
    /\ population = <<>> /\ newPopulation = <<>>
    /\ Done => /\ ran = "greedy"
               /\ result = greedyOptimization(allCases, stashHeight, lockedPositions)

C9_Witness ==
  /\ Done /\ method = "simulated-annealing"
  /\ NonLocked(result.placedCases) # <<>>
  /\ result.unplacedCases # <<>>

\* the positions in allCases of the instances of kind t
InstancesOf(t) == { k \in DOMAIN allCases : allCases[k].type = t }

\* C10: after the expansion a key that is not in the catalog has no instance,
\* a valid key with count n has n instances if n > 0 and none otherwise, each
\* with the catalog size of the kind, and the ids are pairwise distinct.
C10_Expansion ==
  pc # "expand" =>
    /\ \A i \in DOMAIN caseCounts :
         LET e == caseCounts[i] IN
         Cardinality(InstancesOf(e.key)) =
           IF e.key \in CaseTypeSet /\ e.count > 0 THEN e.count ELSE 0
    /\ \A k \in DOMAIN allCases :
         /\ \E i \in DOMAIN caseCounts : caseCounts[i].key = allCases[k].type
         /\ allCases[k].type \in CaseTypeSet
         /\ allCases[k].width = CASES[allCases[k].type].width
         /\ allCases[k].height = CASES[allCases[k].type].height
    /\ \A k, l \in DOMAIN allCases : k # l => allCases[k].id # allCases[l].id

C10_Witness ==
  /\ pc = "dispatch"
  /\ \E i, j \in DOMAIN caseCounts :
       /\ caseCounts[i].key = "bogus" /\ caseCounts[i].count > 0
       /\ caseCounts[j].key = "custom_2x1" /\ caseCounts[j].count = 2
  /\ Len(allCases) = 2

(***************************************************************************)
(* The order of the instance list                                          *)
(***************************************************************************)
\* the kinds in the order of their UTF-16 code units ('K' and 'T' before
\* '_' before the small letters), the order of < on strings
CodeUnitOrder ==
  << "Key_case", "THICCItems", "ammo", "cards", "custom_1x1", "custom_1x2",
     "custom_2x1", "custom_2x2", "custom_2x3", "custom_3x1", "custom_3x2",
     "custom_3x3", "custom_3x4", "custom_4x1", "custom_4x3", "custom_4x4",
     "docs", "food", "grenades", "items", "junk", "keytool", "mags",
     "medicine", "money", "pistol", "plates", "sicc", "stims", "tags",
     "thiicweapons", "toolbox", "twitch", "wallet", "weapons" >>

CodeUnitRank(t) == CHOOSE i \in DOMAIN CodeUnitOrder : CodeUnitOrder[i] = t

\* the kind of instance c has more than one instance in the list
Multiple(c) == Cardinality(InstancesOf(c.type)) > 1

\* the four rules, in priority order: a must come before b
RuleBefore(a, b, Rank(_)) ==
  \/ Multiple(a) /\ ~Multiple(b)
  \/ /\ Multiple(a) = Multiple(b)
     /\ \/ a.width > b.width
        \/ a.width = b.width /\ a.height > b.height
        \/ a.width = b.width /\ a.height = b.height /\ Rank(a.type) < Rank(b.type)

OrderedBy(Rank(_)) ==
  \A i, j \in DOMAIN allCases : i < j => ~RuleBefore(allCases[j], allCases[i], Rank)

Contiguous ==
  \A i, j, k \in DOMAIN allCases :
    i < k /\ k < j /\ allCases[i].type = allCases[j].type
      => allCases[k].type = allCases[i].type

\* C11 as stated, the kind identifiers compared as strings are (by code
\* unit): the list handed to the packers is ordered by count above 1 before
\* count 1, then larger width, then larger height, then kind identifier
\* ascending, and the instances of one kind are contiguous.
C11_LexicalOrder ==
  pc # "expand" => OrderedBy(CodeUnitRank) /\ Contiguous

\* C11: the list handed to the packers is ordered by count above 1 before
\* count 1, then larger width, then larger height, then kind identifier
\* ascending in the collation order of localeCompare (letters before case:
\* custom_3x2 before Key_case before mags), and the instances of one kind
\* are contiguous.
C11_CollationOrder ==
  pc # "expand" => OrderedBy(LocaleRank) /\ Contiguous

\* two single wide kinds after a multiple narrow one, told apart by their
\* identifiers only
C11_Witness ==
  /\ pc = "dispatch"
  /\ [ i \in DOMAIN allCases |-> allCases[i].type ]
       = << "cards", "cards", "custom_3x2", "Key_case" >>

(***************************************************************************)
(* Instances that fit no orientation                                       *)
(***************************************************************************)
IdsOf(items) == { items[i].id : i \in DOMAIN items }

\* C12: when a call of either packer has returned, every instance that fits
\* the grid in neither orientation is in unplacedCases and not among the
\* placed cases; if no instance fits, no case but the locked ones is placed
\* and unplacedCases is the whole instance list.
C12_UnfitUnplaced ==
  Done =>
       /\ \A k \in DOMAIN allCases :
            Unfit(allCases[k], stashHeight) =>
              /\ \E u \in DOMAIN result.unplacedCases :
                   result.unplacedCases[u] = allCases[k]
              /\ allCases[k].id \notin IdsOf(NonLocked(result.placedCases))
       /\ (\A k \in DOMAIN allCases : Unfit(allCases[k], stashHeight)) =>
            /\ NonLocked(result.placedCases) = <<>>
            /\ result.unplacedCases = allCases

\* a genetic run with one instance that fits and is placed and one that does
\* not fit
C12_Witness ==
  /\ Done /\ ran = "genetic"
  /\ \E k \in DOMAIN allCases : Unfit(allCases[k], stashHeight)
  /\ NonLocked(result.placedCases) # <<>>
  /\ result.unplacedCases # <<>>

(***************************************************************************)
(* No instance at all                                                      *)
(***************************************************************************)
AllCountsZero == \A i \in DOMAIN caseCounts : caseCounts[i].count = 0

\* the layout holds the locked cases, in their order and at their positions,
\* and nothing else
LockedOnly(items) == Cores(items) = Cores(lockedPositions)

\* C13: when every count is zero or the counts object is empty, a call with
\* method 'greedy' or 'genetic' returns the locked cases only as placedCases
\* and an empty unplacedCases; on the way every layout the packer holds is
\* the locked cases only.
C13_NothingToPlace ==
  (AllCountsZero /\ method \in { "greedy", "genetic" }) =>
    /\ pc = "scan" => LockedOnly(placedCases) /\ remainingCases = <<>>
    /\ \A i \in DOMAIN population : LockedOnly(population[i])
    /\ \A i \in DOMAIN newPopulation : LockedOnly(newPopulation[i])
    /\ Done => LockedOnly(result.placedCases) /\ result.unplacedCases = <<>>

\* a genetic run over a key with count zero and some locked cases
C13_Witness ==
  /\ Done /\ method = "genetic" /\ ran = "genetic"
  /\ Len(caseCounts) = 1 /\ AllCountsZero
  /\ lockedPositions # <<>>
  /\ Len(result.placedCases) = Len(lockedPositions)

(***************************************************************************)
(* Instances of size 1x1 and room for all of them                          *)
(***************************************************************************)
\* C14: a genetic run whose instances are all of size 1x1, on a grid with at
\* least as many free cells as instances, returns an individual that places
\* every instance, and an empty unplacedCases.
C14_AllPlaced ==
  ( /\ Done /\ ran = "genetic" /\ allCases # <<>>
    /\ \A k \in DOMAIN allCases : allCases[k].width = 1 /\ allCases[k].height = 1
    /\ FreeCells(lockedPositions, stashHeight) >= Len(allCases) )
  => /\ result.unplacedCases = <<>>
     /\ \A k \in DOMAIN allCases :
          allCases[k].id \in IdsOf(NonLocked(result.placedCases))

(***************************************************************************)
(* Termination                                                             *)
(***************************************************************************)
\* the steps of one generation: the elite, the offspring, the replacement
stepsOfGeneration == POPULATION_SIZE - eliteCount + 2

\* the steps a genetic run takes from its start to its return
stepsOfGenetic == POPULATION_SIZE + GENERATIONS * stepsOfGeneration + 1

\* the steps a greedy run takes: the locked cases, one per cell, the return
stepsOfGreedy == GRID_WIDTH * stashHeight + 2

\* an upper bound of the steps the call in progress still takes
StepsLeft ==
  CASE pc = "expand"    -> Max(stepsOfGreedy, stepsOfGenetic) + 2
    [] pc = "dispatch"  -> Max(stepsOfGreedy, stepsOfGenetic) + 1
    [] pc = "locked"    -> stepsOfGreedy
    [] pc = "scan"      -> GRID_WIDTH * stashHeight - cell + 1
    [] pc = "seed"      -> stepsOfGenetic - Len(population)
    [] pc = "evolve"    -> (GENERATIONS - generation) * stepsOfGeneration + 1
    [] pc = "offspring" -> (GENERATIONS - generation - 1) * stepsOfGeneration
                           + (POPULATION_SIZE - Len(newPopulation)) + 2
    [] pc = "done"      -> 0

\* the guards of the steps of a call, with the sets the random values are
\* drawn from: some step can be taken
CanStep ==
  \/ pc \in { "expand", "dispatch", "locked" }
  \/ pc = "scan" /\ cell <= GRID_WIDTH * stashHeight
  \/ pc = "seed" /\ Len(population) < sortedIndividualCount
  \/ /\ pc = "seed" /\ Len(population) < POPULATION_SIZE
     /\ randomIndividuals(allCases, stashHeight, lockedPositions) # {}
  \/ pc \in { "seed", "evolve" } /\ Len(population) = POPULATION_SIZE
  \/ /\ pc = "offspring" /\ Len(newPopulation) < POPULATION_SIZE
     /\ tournamentWinners(fitnessScoresOf(population, allCases, stashHeight)) # {}
  \/ pc = "offspring" /\ Len(newPopulation) >= POPULATION_SIZE

\* C15: every call returns.  Each step of a call lowers StepsLeft, a number
\* that is never negative and is 0 only at the return, and before the return
\* some step can be taken; the greedy scan takes the cells one by one and
\* returns after the last one; the genetic run returns after exactly
\* GENERATIONS generations.
C15_Terminates ==
  /\ [][callNo' = callNo => StepsLeft' < StepsLeft]_vars
  /\ [](StepsLeft >= 0 /\ (StepsLeft = 0 <=> Done))
  /\ [](Done \/ CanStep)
  /\ [][ScanCell => cell' = cell + 1 /\ cell' <= GRID_WIDTH * stashHeight]_vars
  /\ [][GreedyReturn => cell = GRID_WIDTH * stashHeight]_vars
  /\ [][Replace => generation' = generation + 1 /\ generation' <= GENERATIONS]_vars
  /\ [][GeneticReturn => generation = GENERATIONS]_vars

\* a genetic run with an instance that has returned after its last generation
C15_Witness ==
  /\ Done /\ ran = "genetic" /\ generation = GENERATIONS /\ allCases # <<>>
  /\ Len(population) = POPULATION_SIZE

(***************************************************************************)
(* The app's counts and its calls of the engine                            *)
(***************************************************************************)
\* the placed cases of a kind
PlacedOfType(type) ==
  Cardinality({ i \in DOMAIN manuallyPlacedCases : manuallyPlacedCases[i].type = type })

\* C16: when 'Place Remaining Cases' or 'Optimize All' has completed, for every
\* kind the remaining count plus the number of placed cases of the kind is the
\* total owned count the click handed over, also when some cases do not fit.
C16_CountsPreserved ==
  submitted # <<>> =>
    \A type \in CaseTypeSet :
      ReadCount(appCaseCounts, type) + PlacedOfType(type)
        = ReadCount(submitted[1], type)

\* C17: optimizeStashLayout is called only by the two click handlers, never
\* by a step that adds, drops or removes a case or changes a count or the
\* method.
C17_OnlyOnClick ==
  calledBy \in { "none", "handleOptimize", "handleOptimizeAll" }

(***************************************************************************)
(* The greedy scan, cell by cell                                           *)
(***************************************************************************)
\* the cell the scan is at
ScanX == cell % GRID_WIDTH
ScanY == cell \div GRID_WIDTH

\* the scan is at a free cell
AtFreeCell ==
  /\ pc = "scan"
  /\ cell < GRID_WIDTH * stashHeight
  /\ grid[ScanY][ScanX] = Null

\* the w x h rectangle with top-left corner (x, y) lies in the grid and all
\* its cells are empty
EmptyRectangle(g, x, y, w, h, H) ==
  /\ x + w <= GRID_WIDTH
  /\ y + h <= H
  /\ \A yy \in y..(y + h - 1), xx \in x..(x + w - 1) : g[yy][xx] = Null

\* C18: at a free cell getAvailableSpace returns the dimensions of an empty
\* rectangle anchored at the cell, and no empty rectangle anchored there has a
\* larger area.
C18_LargestRectangle ==
  AtFreeCell =>
    LET av == getAvailableSpace(grid, ScanX, ScanY, stashHeight) IN
    /\ EmptyRectangle(grid, ScanX, ScanY, av.width, av.height, stashHeight)
    /\ \A w \in 1..GRID_WIDTH, h \in 1..stashHeight :
         EmptyRectangle(grid, ScanX, ScanY, w, h, stashHeight)
           => w * h <= av.width * av.height

\* C19: at a free cell an orientation that passes the test against the
\* available space lies inside the grid and covers only empty cells, so the
\* bounds test and the collision test that follow it never reject anything.
C19_ChecksRedundant ==
  AtFreeCell =>
    LET av == getAvailableSpace(grid, ScanX, ScanY, stashHeight) IN
    \A w \in 1..GRID_WIDTH, h \in 1..GRID_WIDTH :
      (w <= av.width /\ h <= av.height) =>
        /\ ScanX + w <= GRID_WIDTH
        /\ ScanY + h <= stashHeight
        /\ ~hasCollision(grid, ScanX, ScanY, w, h)

\* a free cell whose row run is cut short by a row below it, where an
\* instance of the pool passes the test against the available space
C19_Witness ==
  /\ AtFreeCell
  /\ LET av == getAvailableSpace(grid, ScanX, ScanY, stashHeight) IN
     /\ av.width < RunRight(grid, ScanX, ScanY)
     /\ \E i \in DOMAIN remainingCases :
          \E k \in DOMAIN orientationsOf(remainingCases[i]) :
            LET o == orientationsOf(remainingCases[i])[k]
            IN  o.width <= av.width /\ o.height <= av.height

\* the orientation k of instance i of the pool
PoolOrientation(c) == orientationsOf(remainingCases[c[1]])[c[2]]

\* the pairs <<instance, orientation>> that are candidates at the cell of the scan
ScanCandidates ==
  LET av == getAvailableSpace(grid, ScanX, ScanY, stashHeight) IN
  { c \in (DOMAIN remainingCases) \X { 1, 2 } :
      /\ c[2] \in DOMAIN orientationsOf(remainingCases[c[1]])
      /\ isCandidate(grid, ScanX, ScanY, stashHeight, PoolOrientation(c), av) }

ScanScore(c) ==
  LET av == getAvailableSpace(grid, ScanX, ScanY, stashHeight)
  IN  scorePlacement(PoolOrientation(c).width, PoolOrientation(c).height,
                     av.width, av.height)

\* instance list order, then unrotated before rotated
TriedBefore(c, d) == c[1] < d[1] \/ (c[1] = d[1] /\ c[2] < d[2])

\* c has maximal score and is the first of those that have it
FirstOfBest(c) ==
  \A d \in ScanCandidates \ { c } :
    \/ ScanScore(d) < ScanScore(c)
    \/ ScanScore(d) = ScanScore(c) /\ TriedBefore(c, d)

\* the step commits candidate c at the cell of the scan and nothing else
CommittedAt(c) ==
  LET inst == remainingCases[c[1]]
      o == PoolOrientation(c)
  IN  /\ placedCases' = Append(placedCases,
           [ id |-> inst.id, type |-> inst.type, x |-> ScanX, y |-> ScanY,
             width |-> o.width, height |-> o.height, rotated |-> o.rotated,
             isLocked |-> FALSE ])
      /\ remainingCases' = RemoveAt(remainingCases, c[1])
      /\ \A yy \in DOMAIN grid, xx \in 0..(GRID_WIDTH - 1) :
           grid'[yy][xx] =
             IF /\ xx >= ScanX /\ xx < ScanX + o.width
                /\ yy >= ScanY /\ yy < ScanY + o.height
               THEN inst.id ELSE grid[yy][xx]

\* C20: a scan step at a free cell with at least one candidate commits exactly
\* one placement there, a candidate of maximal score and among those the
\* first in (instance order, unrotated before rotated); without a candidate
\* grid, placed list and pool stay as they are.
C20_BestFirst ==
  [][ (AtFreeCell /\ cell' = cell + 1) =>
        IF ScanCandidates = {}
          THEN UNCHANGED << grid, placedCases, remainingCases >>
          ELSE \E c \in ScanCandidates : FirstOfBest(c) /\ CommittedAt(c) ]_vars

\* the scan has just committed an instance at the cell it left while another
\* instance of the same kind, later in the list, stays in the pool: two
\* candidates had the maximal score
C20_Witness ==
  /\ pc = "scan" /\ cell > 0
  /\ placedCases # <<>>
  /\ LET p == placedCases[Len(placedCases)] IN
     /\ ~p.isLocked
     /\ p.x = (cell - 1) % GRID_WIDTH /\ p.y = (cell - 1) \div GRID_WIDTH
     /\ \E i \in DOMAIN remainingCases :
          remainingCases[i].type = p.type /\ remainingCases[i].id[2] > p.id[2]

(***************************************************************************)
(* The order of the greedy packer's commits                                *)
(***************************************************************************)
\* the number of the top-left cell of a case in row-major order
CellNumber(c) == c.y * GRID_WIDTH + c.x

\* the cases the scan has committed: placedCases after the locked ones
Committed == SubSeq(placedCases, Len(lockedPositions) + 1, Len(placedCases))

\* C21: during the scan the locked cases are the head of the placed list and
\* their cells are marked; the cases committed after them have strictly
\* increasing top-left cells in row-major order, all before the cell the scan
\* is at; and a scan step keeps every case placed so far as it is.
C21_CommitOrder ==
  /\ [](pc = "scan" =>
         /\ Len(placedCases) >= Len(lockedPositions)
         /\ SubSeq(placedCases, 1, Len(lockedPositions)) = MapLocked(lockedPositions)
         /\ \A i \in DOMAIN lockedPositions :
              \A p \in CellsOf(lockedPositions[i]) : grid[p[2]][p[1]] # Null
         /\ \A i \in DOMAIN Committed :
              /\ ~Committed[i].isLocked
              /\ CellNumber(Committed[i]) < cell
              /\ \A j \in DOMAIN Committed :
                   i < j => CellNumber(Committed[i]) < CellNumber(Committed[j]))
  /\ [][ (pc = "scan" /\ pc' = "scan") =>
           /\ Len(placedCases') >= Len(placedCases)
           /\ SubSeq(placedCases', 1, Len(placedCases)) = placedCases
           /\ \A i \in DOMAIN placedCases :
                \A p \in CellsOf(placedCases[i]) :
                  grid[p[2]][p[1]] # Null => grid'[p[2]][p[1]] = grid[p[2]][p[1]] ]_vars

\* a scan with locked cases that has committed two instances
C21_Witness ==
  /\ pc = "scan"
  /\ lockedPositions # <<>>
  /\ Len(Committed) >= 2

(***************************************************************************)
(* What the greedy packer leaves unplaced                                  *)
(***************************************************************************)
\* a w x h rectangle at (x, y) lies in the grid and overlaps none of items
FitsAmong(items, x, y, w, h, H) ==
  LET r == [x |-> x, y |-> y, width |-> w, height |-> h] IN
  /\ InGrid(r, H)
  /\ \A i \in DOMAIN items : ~Overlap(r, items[i])

\* an instance has a position and an orientation at which it fits among items
CanBePlaced(c, items, H) ==
  \E x \in 0..(GRID_WIDTH - 1), y \in 0..(H - 1) :
    \/ FitsAmong(items, x, y, c.width, c.height, H)
    \/ FitsAmong(items, x, y, c.height, c.width, H)

\* C22: when a greedy run has returned, no instance of unplacedCases has a
\* position and an orientation at which it lies inside the grid without
\* overlapping a case of the returned layout.
C22_UnplacedCannotFit ==
  (Done /\ ran = "greedy") =>
    \A i \in DOMAIN result.unplacedCases :
      ~CanBePlaced(result.unplacedCases[i], result.placedCases, stashHeight)

(***************************************************************************)
(* The genetic packer: result, fitness, population                         *)
(***************************************************************************)
\* C23: in the result of a genetic run unplacedCases is the list of the
\* instances whose id is the id of no non-locked placed case of the returned
\* individual, whatever the ids of the locked cases are.
C23_UnplacedByNonLocked ==
  (Done /\ ran = "genetic") =>
    result.unplacedCases =
      SelectSeq(allCases,
                LAMBDA c : \A i \in DOMAIN result.placedCases :
                             result.placedCases[i].isLocked
                               \/ result.placedCases[i].id # c.id)

RECURSIVE MinOver(_, _)
\* the least of start and the numbers of a sequence
MinOver(start, nums) ==
  IF nums = <<>> THEN start ELSE MinOver(Min(start, Head(nums)), Tail(nums))

\* the area of the smallest axis-aligned rectangle that contains every case
\* of an individual; 0 for an individual without cases
SmallestBoxArea(individual) ==
  IF individual = <<>> THEN 0
  ELSE LET left   == MinOver(GRID_WIDTH, [ i \in DOMAIN individual |-> individual[i].x ])
           top    == MinOver(individual[1].y, [ i \in DOMAIN individual |-> individual[i].y ])
           right  == MaxOver(0, [ i \in DOMAIN individual |->
                                    individual[i].x + individual[i].width ])
           bottom == MaxOver(0, [ i \in DOMAIN individual |->
                                    individual[i].y + individual[i].height ])
       IN  (right - left) * (bottom - top)

\* the fitness with compactness = 1 - SmallestBoxArea / (GRID_WIDTH * H), on
\* the scale of evaluateFitness
FitnessOfSmallestBox(individual, cases, H) ==
  LET placedCount == Len(SelectSeq(individual, notLockedCase))
      total  == Len(cases)
      maxPossibleArea == GRID_WIDTH * H
      rowAlignmentBonus ==
        10 * Cardinality({ i \in DOMAIN individual :
                             individual[i].x % individual[i].width = 0 })
  IN  placedCount * 1000 * maxPossibleArea
      + (maxPossibleArea - SmallestBoxArea(individual)) * 500 * total
      + rowAlignmentBonus * total * maxPossibleArea

\* C24: for every individual of a population the compactness term of
\* evaluateFitness is 1 - boundingBoxArea / (GRID_WIDTH * stashHeight) with
\* the area of the smallest rectangle that contains all its cases, locked or
\* not, also when no case touches column 0 or row 0.
C24_SmallestBox ==
  allCases # <<>> =>
    \A i \in DOMAIN population :
      evaluateFitness(population[i], allCases, stashHeight)
        = FitnessOfSmallestBox(population[i], allCases, stashHeight)

\* C25: the population has POPULATION_SIZE individuals at the start of every
\* generation and after the last one.  Its first three tenths are greedy
\* layouts and the rest randomized layouts; every generation carries the
\* fittest fifth over unchanged and adds offspring up to POPULATION_SIZE.
\* At the source's size of 50 these counts are 15, 35, 10 and 40.
C25_PopulationSizes ==
  /\ sortedCountOf(SourcePopulationSize) = 15
  /\ SourcePopulationSize - sortedCountOf(SourcePopulationSize) = 35
  /\ eliteCountOf(SourcePopulationSize) = 10
  /\ SourcePopulationSize - eliteCountOf(SourcePopulationSize) = 40
  /\ [](ran = "genetic" =>
          /\ pc = "seed" =>
               /\ Len(population) <= POPULATION_SIZE
               /\ \A i \in DOMAIN population :
                    IF i <= (3 * POPULATION_SIZE) \div 10
                      THEN population[i] =
                             greedyOptimization(allCases, stashHeight,
                                                lockedPositions).placedCases
                      ELSE population[i] \in
                             randomIndividuals(allCases, stashHeight, lockedPositions)
          /\ pc \in { "evolve", "offspring", "done" } =>
               Len(population) = POPULATION_SIZE
          /\ pc = "offspring" =>
               /\ Len(newPopulation) >= POPULATION_SIZE \div 5
               /\ Len(newPopulation) <= POPULATION_SIZE
               /\ \A i \in 1..(POPULATION_SIZE \div 5) :
                    newPopulation[i] =
                      fitnessScoresOf(population, allCases, stashHeight)[i].individual)
  /\ [][Elitism => /\ Len(population) = POPULATION_SIZE
                   /\ Len(newPopulation') = POPULATION_SIZE \div 5]_vars
  /\ [][Offspring => Len(newPopulation') = Len(newPopulation) + 1]_vars
  /\ [][Replace => /\ Len(newPopulation) = POPULATION_SIZE
                   /\ population' = newPopulation]_vars
  /\ [][GeneticReturn => Len(population) = POPULATION_SIZE]_vars

\* the last generation of a run with an instance is complete: the elite and
\* the offspring fill the new population
C25_Witness ==
  /\ pc = "offspring"
  /\ allCases # <<>>
  /\ generation = GENERATIONS - 1
  /\ Len(newPopulation) = POPULATION_SIZE

\* the greatest fitness among the individuals of a population
bestFitnessOf(pop, cases, H) ==
  MaxOver(evaluateFitness(pop[1], cases, H),
          [ i \in DOMAIN pop |-> evaluateFitness(pop[i], cases, H) ])

\* the fitness of the layout the sorted seeding pushes
greedySeedFitness ==
  evaluateFitness(greedyOptimization(allCases, stashHeight, lockedPositions).placedCases,
                  allCases, stashHeight)

\* C26: in a genetic run with at least one instance the best fitness of the
\* population does not decrease when a generation replaces the population,
\* the population's best fitness and the fitness of the returned individual
\* are at least the fitness of the greedy seed, and producing the elite and
\* the offspring leaves the population and the individuals already carried
\* over as they are.
C26_BestNeverDecreases ==
  /\ [][(Replace /\ allCases # <<>>) =>
          bestFitnessOf(population', allCases, stashHeight)
            >= bestFitnessOf(population, allCases, stashHeight)]_vars
  /\ []((ran = "genetic" /\ allCases # <<>> /\ pc \in { "evolve", "offspring" }) =>
          bestFitnessOf(population, allCases, stashHeight) >= greedySeedFitness)
  /\ [][(GeneticReturn /\ allCases # <<>>) =>
          /\ evaluateFitness(result'.placedCases, allCases, stashHeight)
               = bestFitnessOf(population, allCases, stashHeight)
          /\ evaluateFitness(result'.placedCases, allCases, stashHeight)
               >= greedySeedFitness]_vars
  /\ [][Elitism =>
          /\ population' = population
          /\ \A i \in DOMAIN newPopulation' :
               /\ newPopulation'[i] \in Range(population)
               /\ evaluateFitness(newPopulation'[i], allCases, stashHeight)
                    = bestFitnessOf(population, allCases, stashHeight)]_vars
  /\ [][Offspring =>
          /\ population' = population
          /\ SubSeq(newPopulation', 1, Len(newPopulation)) = newPopulation]_vars

\* after the last generation the population of a run with an instance holds
\* an individual less fit than its best, and the best is fitter than the
\* greedy seed
C26_Witness ==
  /\ ran = "genetic"
  /\ pc = "evolve"
  /\ generation = GENERATIONS
  /\ allCases # <<>>
  /\ \E i \in DOMAIN population :
       evaluateFitness(population[i], allCases, stashHeight)
         < bestFitnessOf(population, allCases, stashHeight)
  /\ bestFitnessOf(population, allCases, stashHeight) > greedySeedFitness

\* the placement the coin of the k-th id chooses: <<>> or a one-element sequence
chosenCaseOf(parent1, parent2, coins, k) ==
  LET ids == allCaseIdsOf(parent1, parent2)
  IN  IF coins[k] THEN findById(SelectSeq(parent1, notLockedCase), ids[k])
                  ELSE findById(SelectSeq(parent2, notLockedCase), ids[k])

\* what C27 says of the child of one crossover
CrossoverChildOk(parent1, parent2, coins, H, locked) ==
  LET child == crossover(parent1, parent2, coins, H)
      ids == allCaseIdsOf(parent1, parent2)
      accepted == SelectSeq(child, notLockedCase)
      position(id) == CHOOSE k \in DOMAIN ids : ids[k] = id
  IN  /\ SelectSeq(child, isLockedCase) = MapLocked(locked)
      /\ \A i, j \in DOMAIN accepted : i # j => accepted[i].id # accepted[j].id
      /\ \A i \in DOMAIN accepted :
           /\ accepted[i].id \in Range(ids)
           /\ <<accepted[i]>> = chosenCaseOf(parent1, parent2, coins,
                                             position(accepted[i].id))
      /\ \A i \in DOMAIN child :
           ~child[i].isLocked => \A j \in 1..(i - 1) : ~Overlap(child[i], child[j])
      /\ \A k \in DOMAIN ids :
           LET chosenCase == chosenCaseOf(parent1, parent2, coins, k)
               before == { c \in Range(child) :
                             \/ c.isLocked
                             \/ \E m \in 1..(k - 1) : ids[m] = c.id }
           IN  (\E c \in Range(accepted) : c.id = ids[k])
                 <=> /\ chosenCase # <<>>
                     /\ \A c \in before : ~Overlap(chosenCase[1], c)

\* C27: for every pair of parents the offspring step can select and every
\* outcome of the coins, the child of crossover holds the locked items, holds
\* no two non-locked items with one id, every non-locked item of it is the
\* placement its coin chose in parent1 or parent2, a placement is in the
\* child exactly when it was chosen and overlaps no locked item and no
\* placement accepted before it.
C27_CrossoverChild ==
  (ran = "genetic" /\ pc = "offspring") =>
    LET winners == tournamentWinners(fitnessScoresOf(population, allCases, stashHeight))
    IN  \A parent1 \in winners, parent2 \in winners :
          \A coins \in [ DOMAIN allCaseIdsOf(parent1, parent2) -> BOOLEAN ] :
            CrossoverChildOk(parent1, parent2, coins, stashHeight, lockedPositions)

\* some crossover of two individuals of the population drops an instance
\* whose chosen placement overlaps a placement accepted before it
C27_Witness ==
  /\ ran = "genetic"
  /\ pc = "offspring"
  /\ \E parent1 \in Range(population), parent2 \in Range(population) :
       \E coins \in [ DOMAIN allCaseIdsOf(parent1, parent2) -> BOOLEAN ] :
         LET child == crossover(parent1, parent2, coins, stashHeight)
             ids == allCaseIdsOf(parent1, parent2)
         IN  \E k \in DOMAIN ids :
               /\ chosenCaseOf(parent1, parent2, coins, k) # <<>>
               /\ \A c \in Range(child) : c.id # ids[k]
               /\ \E c \in Range(child) :
                    /\ ~c.isLocked
                    /\ Overlap(chosenCaseOf(parent1, parent2, coins, k)[1], c)

\* what C28 says of one result of mutate
MutationOk(individual, mutated, H) ==
  LET changed == { i \in DOMAIN individual : mutated[i] # individual[i] }
  IN  /\ DOMAIN mutated = DOMAIN individual
      /\ Cardinality(changed) <= 1
      /\ \A i \in changed :
           /\ ~individual[i].isLocked
           /\ ~mutated[i].isLocked
           /\ mutated[i].id = individual[i].id
           /\ mutated[i].type = individual[i].type
           /\ InGrid(mutated[i], H)
           /\ \A j \in DOMAIN mutated : j # i => ~Overlap(mutated[i], mutated[j])

\* the children crossover can hand to mutate in this state
childrenOf(pop, cases, H) ==
  LET winners == tournamentWinners(fitnessScoresOf(pop, cases, H))
  IN  UNION { { crossover(parent1, parent2, coins, H) :
                  coins \in [ DOMAIN allCaseIdsOf(parent1, parent2) -> BOOLEAN ] }
              : parent1 \in winners, parent2 \in winners }

\* C28: every result of mutating an offspring differs from the offspring in
\* at most one item, which is not locked, keeps its id and kind, lies in the
\* grid and overlaps no other item of the result; with no non-locked item,
\* or when the attempts all fail, the result is the offspring.
C28_MutationValid ==
  (ran = "genetic" /\ pc = "offspring") =>
    \A child \in childrenOf(population, allCases, stashHeight) :
      /\ \A mutated \in mutations(child, allCases, stashHeight) :
           MutationOk(child, mutated, stashHeight)
      /\ SelectSeq(child, notLockedCase) = <<>> =>
           mutations(child, allCases, stashHeight) = { child }
      /\ \A pick \in DOMAIN SelectSeq(child, notLockedCase) :
           mutate(child, allCases, stashHeight, pick, <<>>) = child

\* the requests that have arrived
Arrived == { r \in Requests : requests[r].pc # "none" }

\* C29: when every POST that arrived has been answered, all with 200, the
\* file holds the count it held at the start plus the number of requests,
\* and no two responses carry the same count.
C29_CountsEveryPost ==
  (\A r \in Arrived : requests[r].pc = "done" /\ requests[r].status = 200) =>
    /\ countFile = stringifyCount(countAtStart + Cardinality(Arrived))
    /\ \A r1, r2 \in Arrived : r1 # r2 => requests[r1].count # requests[r2].count

\* C30: no step of a call changes the arguments; every call starts from the
\* state a first call starts from; the instance ids of every call are
\* numbered from 0; and what a greedy call returns, first or second, is the
\* layout its arguments alone determine.
C30_NoStateBetweenCalls ==
  /\ [][pc # "done" => UNCHANGED inputVars]_vars
  /\ [](pc = "expand" => FreshCall)
  /\ [](pc # "expand" =>
          { allCases[k].id[2] : k \in DOMAIN allCases } = 0..(Len(allCases) - 1))
  /\ []((Done /\ ran = "greedy") =>
          /\ result.placedCases =
               optimizeStashLayout(caseCounts, stashHeight, lockedPositions,
                                   method).placedCases
          /\ result.unplacedCases =
               optimizeStashLayout(caseCounts, stashHeight, lockedPositions,
                                   method).unplacedCases
          /\ result.grid =
               optimizeStashLayout(caseCounts, stashHeight, lockedPositions,
                                   method).grid)

\* a second call has returned whose locked list holds a case the first call
\* placed, still not marked locked in the argument, and whose own instance
\* has that case's id
C30_Witness ==
  /\ Done
  /\ callNo = 2
  /\ second = "roundtrip"
  /\ \E i \in DOMAIN lockedPositions :
       /\ ~lockedPositions[i].isLocked
       /\ \E k \in DOMAIN allCases : allCases[k].id = lockedPositions[i].id
       /\ \E j \in DOMAIN result.placedCases :
            /\ result.placedCases[j].isLocked
            /\ result.placedCases[j].id = lockedPositions[i].id

====
